---------------------------- MODULE Spec2Model ----------------------------
(***************************************************************************)
(* Model of the Solana side of the Base <-> Solana bridge program          *)
(* (solana/programs/bridge): the Bridge singleton and its EIP-1559 fee     *)
(* engine, the outbound instructions that create OutgoingMessage accounts, *)
(* the call-buffer accounts, the guardian configuration setters, output    *)
(* root registration, message proving and message relaying.                *)
(*                                                                         *)
(* One action models one instruction.  An instruction that returns Err is  *)
(* rolled back by the runtime, so a handler is an operator from the        *)
(* accounts it is given (a "world" record) to a result [ok, err, w]; the   *)
(* action commits r.w only when r.ok.  The variable `last` records the     *)
(* instruction that was attempted last, its signer and its outcome.        *)
(***************************************************************************)
EXTENDS Integers, Sequences, FiniteSets, TLC

VARIABLES
    initialized,     \* the Bridge PDA exists (initialize has run)
    bridge,          \* the Bridge account
    now,             \* Clock::get()?.unix_timestamp
    lamports,        \* lamport balance of every system account of the model
    tokens,          \* SPL / Token-2022 balances
    outgoing,        \* OutgoingMessage accounts, in creation order
    buffers,         \* CallBuffer accounts
    oracle_signers,  \* the OracleSigners account
    roots,           \* OutputRoot accounts, keyed by block number
    incoming,        \* IncomingMessage accounts, keyed by message hash
    messages,        \* Message accounts of the receiver, keyed by transaction hash
    delivered,       \* accounts of the programs a relayed message calls into
    relayer,         \* the Cfg account of base_relayer and its MessageToRelay accounts
    pow,             \* the arguments and the outcome of one fixed_pow evaluation
    last             \* the instruction attempted last and its outcome

vars == << initialized, bridge, now, lamports, tokens, outgoing, buffers,
           oracle_signers, roots, incoming, messages, delivered, relayer, pow,
           last >>

-----------------------------------------------------------------------------
(* Bounds of the model *)

MaxNonce == 2        \* outbound messages created in one behaviour
MaxTime == 2         \* seconds the clock advances after initialize
MaxDataLen == 2      \* bytes of call data in a Call or a CallBuffer
MaxWindows == 6      \* expired windows one refresh spans
MaxExponent == 12    \* largest exponent handed to fixed_pow on its own

(* Program constants *)

EIP1559_MINIMUM_BASE_FEE == 1
EIP1559_DEFAULT_WINDOW_DURATION_SECONDS == 1
EIP1559_DEFAULT_GAS_TARGET_PER_WINDOW == 5000000
EIP1559_DEFAULT_ADJUSTMENT_DENOMINATOR == 2
MAX_GAS_LIMIT_PER_MESSAGE == 100000000
GAS_COST_SCALER_DP == 1000000
GAS_COST_SCALER == 1000000
RELAY_MESSAGES_CALL_ABI_ENCODING_OVERHEAD == 544
RELAY_MESSAGES_TRANSFER_ABI_ENCODING_OVERHEAD == 480
DEFAULT_BLOCK_INTERVAL_REQUIREMENT == 300
REGISTER_BLOCK_INTERVAL == 300
MINIMUM_THRESHOLD == 2

\* The fixed-point unit of fixed_pow.  The program's value is a larger power
\* of ten; this one keeps every product inside TLC's integers.
SCALE == 10000

\* The largest value of the word checked_mul multiplies in, scaled with SCALE:
\* the square of every base below SCALE fits, as it does in the program.
CHECKED_MUL_MAX == 1073741823

\* Pubkeys.  GAS_FEE_RECEIVER is declared equal to TRUSTED_ORACLE.
TRUSTED_ORACLE == "oracle"
GAS_FEE_RECEIVER == TRUSTED_ORACLE
NATIVE_SOL_PUBKEY == "SoL"
PROGRAM_ID == "bridge_program"
ZERO_ADDRESS == "0x0"

Min(a, b) == IF a < b THEN a ELSE b
Max(a, b) == IF a > b THEN a ELSE b

Ok(w) == [ok |-> TRUE, err |-> "", w |-> w]
Err(e, w) == [ok |-> FALSE, err |-> e, w |-> w]

\* A failed cross-program invocation ends the transaction: the caller cannot
\* catch it the way it can match on an Err of its own code.
Abort(e, w) == [ok |-> FALSE, err |-> e, w |-> w, abort |-> TRUE]
Aborted(r) == "abort" \in DOMAIN r

-----------------------------------------------------------------------------
(* Fixed-point math and the EIP-1559 fee engine *)

RECURSIVE fixed_pow_loop(_, _, _)
fixed_pow_loop(result, base, exp) ==
    IF exp = 0 THEN result
    ELSE fixed_pow_loop(IF exp % 2 = 1 THEN (result * base) \div SCALE ELSE result,
                        (base * base) \div SCALE,
                        exp \div 2)

\* fixed_pow with the result starting at base instead of SCALE.
fixed_pow_starting_from_base(base, exp) == fixed_pow_loop(base, base, exp)

fixed_pow(base, exp) == fixed_pow_loop(SCALE, base, exp)

\* checked_mul(..) is None: the product does not fit the word.
checked_mul_overflows(a, b) == b # 0 /\ a > CHECKED_MUL_MAX \div b

\* The unwrap of a checked_mul panics somewhere in the loop of fixed_pow.
RECURSIVE fixed_pow_loop_panics(_, _, _)
fixed_pow_loop_panics(result, base, exp) ==
    IF exp = 0 THEN FALSE
    ELSE IF exp % 2 = 1 /\ checked_mul_overflows(result, base) THEN TRUE
    ELSE IF checked_mul_overflows(base, base) THEN TRUE
    ELSE fixed_pow_loop_panics(
             IF exp % 2 = 1 THEN (result * base) \div SCALE ELSE result,
             (base * base) \div SCALE,
             exp \div 2)

fixed_pow_panics(base, exp) == fixed_pow_loop_panics(SCALE, base, exp)

\* One evaluation of fixed_pow: its arguments, whether it panicked, its value.
FixedPow(base, exp) ==
    [ base |-> base, exp |-> exp,
      panicked |-> fixed_pow_panics(base, exp),
      result |-> IF fixed_pow_panics(base, exp) THEN 0 ELSE fixed_pow(base, exp) ]

Eip1559_new(current_timestamp) ==
    [ target |-> EIP1559_DEFAULT_GAS_TARGET_PER_WINDOW,
      denominator |-> EIP1559_DEFAULT_ADJUSTMENT_DENOMINATOR,
      window_duration_seconds |-> EIP1559_DEFAULT_WINDOW_DURATION_SECONDS,
      minimum_base_fee |-> EIP1559_MINIMUM_BASE_FEE,
      current_base_fee |-> EIP1559_MINIMUM_BASE_FEE,
      current_window_gas_used |-> 0,
      window_start_time |-> current_timestamp ]

expired_windows_count(e, current_timestamp) ==
    (current_timestamp - e.window_start_time) \div e.window_duration_seconds

\* calc_base_fee without the minimum increase of 1.
calc_base_fee_without_minimum_increase(e, gas_used) ==
    IF gas_used = e.target THEN e.current_base_fee
    ELSE IF gas_used > e.target
    THEN e.current_base_fee
             + (((gas_used - e.target) * e.current_base_fee) \div e.target) \div e.denominator
    ELSE LET base_fee_delta ==
                 (((e.target - gas_used) * e.current_base_fee) \div e.target)
                     \div e.denominator
         IN  IF e.current_base_fee >= base_fee_delta
             THEN e.current_base_fee - base_fee_delta
             ELSE e.minimum_base_fee

calc_base_fee(e, gas_used) ==
    IF gas_used = e.target THEN e.current_base_fee
    ELSE IF gas_used > e.target
    THEN LET gas_used_delta == gas_used - e.target
             base_fee_delta ==
                 ((gas_used_delta * e.current_base_fee) \div e.target) \div e.denominator
         IN  e.current_base_fee + Max(base_fee_delta, 1)
    ELSE LET gas_used_delta == e.target - gas_used
             base_fee_delta ==
                 ((gas_used_delta * e.current_base_fee) \div e.target) \div e.denominator
         IN  \* checked_sub(..).unwrap_or(minimum_base_fee)
             IF e.current_base_fee >= base_fee_delta
             THEN e.current_base_fee - base_fee_delta
             ELSE e.minimum_base_fee

\* The state of the engine after refresh_base_fee(current_timestamp); the value
\* the function returns is the current_base_fee of that state.
\* refresh_base_fee applying the decay to every expired window, the first included.
refresh_base_fee_decaying_every_window(e, current_timestamp) ==
    LET expired == expired_windows_count(e, current_timestamp) IN
    IF expired = 0 THEN e
    ELSE LET first == calc_base_fee(e, e.current_window_gas_used)
             scaled_denominator == e.denominator * SCALE
             ratio == (scaled_denominator - SCALE) \div e.denominator
             factor == fixed_pow(ratio, expired)
         IN  [e EXCEPT !.current_base_fee = (first * factor) \div SCALE,
                       !.current_window_gas_used = 0,
                       !.window_start_time = current_timestamp]

\* refresh_base_fee carrying the gas of the closed window into the new one.
refresh_base_fee_keeping_gas_used(e, current_timestamp) ==
    LET expired == expired_windows_count(e, current_timestamp) IN
    IF expired = 0 THEN e
    ELSE LET first == calc_base_fee(e, e.current_window_gas_used)
             remaining == expired - 1
             ratio == (e.denominator * SCALE - SCALE) \div e.denominator
             fee == IF remaining > 0 THEN (first * fixed_pow(ratio, remaining)) \div SCALE
                    ELSE first
         IN  [e EXCEPT !.current_base_fee = fee,
                       !.window_start_time = current_timestamp]

refresh_base_fee(e, current_timestamp) ==
    LET expired == expired_windows_count(e, current_timestamp) IN
    IF expired = 0 THEN e
    ELSE LET first == calc_base_fee(e, e.current_window_gas_used)
             remaining == expired - 1
             scaled_denominator == e.denominator * SCALE
             ratio == (scaled_denominator - SCALE) \div e.denominator
             factor == fixed_pow(ratio, remaining)
             fee == IF remaining > 0 THEN (first * factor) \div SCALE ELSE first
         IN  [e EXCEPT !.current_base_fee = fee,
                       !.current_window_gas_used = 0,
                       !.window_start_time = current_timestamp]

add_gas_usage(e, gas_amount) ==
    [e EXCEPT !.current_window_gas_used = @ + gas_amount]


-----------------------------------------------------------------------------
(* Accounts of the model *)

Users == {"alice", "bob"}
INITIAL_GUARDIAN == "guardian"
Receivers == {GAS_FEE_RECEIVER, "recv2"}
SOL_VAULT == "sol_vault"
SystemAccounts == Users \cup Receivers \cup {INITIAL_GUARDIAN, SOL_VAULT}

\* Mints: a plain SPL mint, the wrapped mint created by wrap_token (a PDA of the
\* program that embeds PartialTokenMetadata), and a Token-2022 mint that embeds
\* well-formed metadata but is not a PDA of the program.
SPL_MINT == "spl_mint"
WRAPPED_MINT == "wrapped_mint"
FOREIGN_MINT == "foreign_mint"
Mints == {SPL_MINT, WRAPPED_MINT, FOREIGN_MINT}
TOKEN_VAULT == "token_vault"
OTHER_TOKEN_VAULT == "other_token_vault"
TokenHolders == Users \cup {TOKEN_VAULT, OTHER_TOKEN_VAULT}
REMOTE_TOKEN == "remote_token"
OTHER_REMOTE_TOKEN == "other_remote_token"

\* The token vault PDA of a (mint, remote token) pair: balances are kept per
\* mint, so the vault of a pair is named by its remote token.
token_vault_pda(mint, remote_token) ==
    IF remote_token = REMOTE_TOKEN THEN TOKEN_VAULT ELSE OTHER_TOKEN_VAULT

\* Lamports an account must hold to be rent exempt; `init` takes them from the
\* payer and `close` hands them to the named receiver.
Rent == 1

Call(ty, to, value, data) == [ty |-> ty, to |-> to, value |-> value, data |-> data]
None == << >>
Some(x) == << x >>

\* The zeroed account `init` leaves before the handler writes to it.
DefaultCall == Call("Call", ZERO_ADDRESS, 0, << >>)
DefaultOutgoingMessage ==
    [ nonce |-> 0, original_payer |-> "", sender |-> "", gas_limit |-> 0,
      message |-> [kind |-> "Call", call |-> DefaultCall], closed |-> FALSE ]

World ==
    [ bridge |-> bridge, lamports |-> lamports, tokens |-> tokens,
      outgoing |-> outgoing, buffers |-> buffers,
      oracle_signers |-> oracle_signers, roots |-> roots, incoming |-> incoming,
      messages |-> messages, delivered |-> delivered, relayer |-> relayer ]

\* The runtime commits the accounts of an instruction that returned Ok and
\* discards every change of one that returned Err.
Commit(r, info) ==
    LET w == IF r.ok THEN r.w ELSE World IN
    /\ bridge' = w.bridge
    /\ lamports' = w.lamports
    /\ tokens' = w.tokens
    /\ outgoing' = w.outgoing
    /\ buffers' = w.buffers
    /\ oracle_signers' = w.oracle_signers
    /\ roots' = w.roots
    /\ incoming' = w.incoming
    /\ messages' = w.messages
    /\ delivered' = w.delivered
    /\ relayer' = w.relayer
    /\ pow' = pow
    /\ last' = info @@ [ok |-> r.ok, err |-> r.err]

\* system_program::transfer
transfer(w, from, to, amount) ==
    IF w.lamports[from] < amount THEN Err("InsufficientFunds", w)
    ELSE IF from = to THEN Ok(w)
    ELSE Ok([w EXCEPT !.lamports[from] = @ - amount, !.lamports[to] = @ + amount])

-----------------------------------------------------------------------------
(* 64-bit arithmetic of the fee *)

\* Unsigned integers wider than the checker's own are little-endian sequences
\* of sixteen base-256 limbs: the low eight are a u64, all sixteen a u128.
RECURSIVE limbs_from(_, _)
limbs_from(n, count) ==
    IF count = 0 THEN << >> ELSE << n % 256 >> \o limbs_from(n \div 256, count - 1)

Limbs(n) == limbs_from(n, 16)

RECURSIVE limbs_column(_, _, _, _)
limbs_column(a, b, i, j) ==
    IF j > i THEN 0 ELSE a[j] * b[i + 1 - j] + limbs_column(a, b, i, j + 1)

RECURSIVE limbs_mul_from(_, _, _, _)
limbs_mul_from(a, b, i, carry) ==
    IF i > 16 THEN << >>
    ELSE << (limbs_column(a, b, i, 1) + carry) % 256 >>
             \o limbs_mul_from(a, b, i + 1, (limbs_column(a, b, i, 1) + carry) \div 256)

\* The product of two values whose product is below 2^128.
limbs_mul(a, b) == limbs_mul_from(a, b, 1, 0)

RECURSIVE limbs_div_from(_, _, _, _)
limbs_div_from(a, d, i, rem) ==
    IF i = 0 THEN << >>
    ELSE limbs_div_from(a, d, i - 1, (rem * 256 + a[i]) % d)
             \o << (rem * 256 + a[i]) \div d >>

\* The quotient by a divisor below 2^23.
limbs_div(a, d) == limbs_div_from(a, d, 16, 0)

fits_u64(a) == \A i \in 9..16 : a[i] = 0
wrapping_u64(a) == SubSeq(a, 1, 8) \o SubSeq(Limbs(0), 9, 16)

\* `a * b` on u64 operands: with overflow checks the program panics when the
\* product does not fit, without them the product wraps.
u64_mul(a, b, overflow_checks) ==
    LET product == limbs_mul(a, b) IN
    IF fits_u64(product) THEN [ok |-> TRUE, value |-> product]
    ELSE IF overflow_checks THEN [ok |-> FALSE, value |-> Limbs(0)]
    ELSE [ok |-> TRUE, value |-> wrapping_u64(product)]

\* gas_cost of pay_for_gas: gas_limit * base_fee * gas_cost_scaler / gas_cost_scaler_dp
pay_for_gas_cost(gas_limit, base_fee, gas_cost_scaler, gas_cost_scaler_dp, overflow_checks) ==
    LET first == u64_mul(Limbs(gas_limit), Limbs(base_fee), overflow_checks)
        second == u64_mul(first.value, Limbs(gas_cost_scaler), overflow_checks)
    IN  IF ~first.ok THEN first
        ELSE IF ~second.ok THEN second
        ELSE [ok |-> TRUE, value |-> limbs_div(second.value, gas_cost_scaler_dp)]

-----------------------------------------------------------------------------
(* Bridge state *)

MAX_CALL_BUFFER_SIZE == 8 * 1024

Bridge_default(current_timestamp) ==
    [ base_block_number |-> 0,
      base_last_relayed_nonce |-> 0,
      nonce |-> 0,
      eip1559 |-> Eip1559_new(current_timestamp),
      guardian |-> INITIAL_GUARDIAN,
      gas_cost_config |-> [ gas_cost_scaler |-> GAS_COST_SCALER,
                            gas_cost_scaler_dp |-> GAS_COST_SCALER_DP,
                            gas_fee_receiver |-> GAS_FEE_RECEIVER ],
      gas_config |-> [ extra |-> 10000,
                       execution_prologue |-> 65000,
                       execution |-> 40000,
                       execution_epilogue |-> 25000,
                       base_transaction_cost |-> 21000,
                       max_gas_limit_per_message |-> MAX_GAS_LIMIT_PER_MESSAGE ],
      protocol_config |-> [ block_interval_requirement |-> DEFAULT_BLOCK_INTERVAL_REQUIREMENT ],
      limits_config |-> [ max_call_buffer_size |-> MAX_CALL_BUFFER_SIZE ],
      paused |-> FALSE ]

initialize_handler(w, current_timestamp) ==
    Ok([w EXCEPT !.bridge = Bridge_default(current_timestamp)])

-----------------------------------------------------------------------------
(* Outbound messages: validation, sizing, pricing *)

\* check_call without the creation rule.
check_call_accepting_all(call) == TRUE

check_call(call) ==
    call.ty \in {"Call", "DelegateCall"} \/ call.to = ZERO_ADDRESS

new_call(nonce, payer, sender, gas_limit, call) ==
    [ nonce |-> nonce, original_payer |-> payer, sender |-> sender,
      gas_limit |-> gas_limit,
      message |-> [kind |-> "Call", call |-> call], closed |-> FALSE ]

new_transfer(nonce, payer, sender, gas_limit, transfer_op) ==
    [ nonce |-> nonce, original_payer |-> payer, sender |-> sender,
      gas_limit |-> gas_limit,
      message |-> [kind |-> "Transfer", transfer |-> transfer_op], closed |-> FALSE ]

TransferOp(to, local_token, remote_token, amount, call) ==
    [ to |-> to, local_token |-> local_token, remote_token |-> remote_token,
      amount |-> amount, call |-> call ]

div_ceil(a, b) == (a + b - 1) \div b

relay_messages_tx_size(m) ==
    IF m.message.kind = "Call"
    THEN RELAY_MESSAGES_CALL_ABI_ENCODING_OVERHEAD
             + div_ceil(Len(m.message.call.data), 32) * 32
    ELSE RELAY_MESSAGES_TRANSFER_ABI_ENCODING_OVERHEAD
             + (IF m.message.transfer.call = None THEN 0
                ELSE div_ceil(Len(m.message.transfer.call[1].data), 32) * 32)

RELAY_MESSAGES_TRANSFER_AND_CALL_ABI_ENCODING_OVERHEAD == 704

\* Solidity ABI encoding, as lengths in bytes.  A `bytes` value is a length
\* word followed by the data padded to whole words.
abi_bytes_size(len) == 32 + div_ceil(len, 32) * 32

\* Call { ty, to, value, data } is a dynamic tuple: four head words (the last
\* is the offset of data) and the bytes.
abi_call_tuple_size(call) == 4 * 32 + abi_bytes_size(Len(call.data))

\* Transfer { localToken, remoteToken, to, remoteAmount } is four static words.
abi_transfer_tuple_size == 4 * 32

\* The `data` of the IncomingMessage: call.abi_encode(), transfer.abi_encode()
\* or (transfer, call).abi_encode(); a dynamic value is preceded by its offset.
abi_message_data_size(m) ==
    IF m.message.kind = "Call" THEN 32 + abi_call_tuple_size(m.message.call)
    ELSE IF m.message.transfer.call = None THEN abi_transfer_tuple_size
    ELSE 32 + abi_transfer_tuple_size + 32
            + abi_call_tuple_size(m.message.transfer.call[1])

\* IncomingMessage { nonce, sender, gasLimit, ty, data }: five head words and
\* the bytes of data.
abi_incoming_message_size(m) == 5 * 32 + abi_bytes_size(abi_message_data_size(m))

\* The arguments of relayMessages([m], ""): the offsets of the two arguments,
\* the array (length, one element offset, the element) and the empty ismData.
relay_messages_abi_encoded_size(m) ==
    2 * 32 + (32 + 32 + abi_incoming_message_size(m)) + abi_bytes_size(0)

\* Whole kilobytes of relay calldata that are accounted as gas.
overhead(tx_size) == tx_size \div 1024

\* check_gas_limit refusing a gas limit equal to the maximum.
check_gas_limit_rejecting_equal(w, gas_limit) ==
    IF gas_limit >= w.bridge.gas_config.max_gas_limit_per_message
    THEN Err("GasLimitExceeded", w)
    ELSE Ok(w)

check_gas_limit(w, gas_limit) ==
    IF ~(gas_limit <= w.bridge.gas_config.max_gas_limit_per_message)
    THEN Err("GasLimitExceeded", w)
    ELSE Ok(w)

\* pay_for_gas recording the gas before it refreshes the fee engine.
pay_for_gas_recording_gas_first(w, t, payer, gas_fee_receiver, gas_limit) ==
    LET refreshed == refresh_base_fee(add_gas_usage(w.bridge.eip1559, gas_limit), t)
        gas_cost == (gas_limit * refreshed.current_base_fee
                        * w.bridge.gas_cost_config.gas_cost_scaler)
                        \div w.bridge.gas_cost_config.gas_cost_scaler_dp
    IN  transfer([w EXCEPT !.bridge.eip1559 = refreshed], payer, gas_fee_receiver, gas_cost)

pay_for_gas(w, t, payer, gas_fee_receiver, gas_limit) ==
    LET refreshed == refresh_base_fee(w.bridge.eip1559, t)
        base_fee == refreshed.current_base_fee
        used == add_gas_usage(refreshed, gas_limit)
        gas_cost == (gas_limit * base_fee * w.bridge.gas_cost_config.gas_cost_scaler)
                        \div w.bridge.gas_cost_config.gas_cost_scaler_dp
    IN  transfer([w EXCEPT !.bridge.eip1559 = used], payer, gas_fee_receiver, gas_cost)

check_and_pay_for_gas(w, t, payer, gas_fee_receiver, gas_limit, tx_size) ==
    IF ~check_gas_limit(w, gas_limit).ok
    THEN check_gas_limit(w, gas_limit)
    ELSE LET refreshed == refresh_base_fee(w.bridge.eip1559, t)
             base_fee == refreshed.current_base_fee
             used == add_gas_usage(refreshed, gas_limit + overhead(tx_size))
             gas_cost == (gas_limit * base_fee * w.bridge.gas_cost_config.gas_cost_scaler)
                             \div w.bridge.gas_cost_config.gas_cost_scaler_dp
         IN  transfer([w EXCEPT !.bridge.eip1559 = used], payer, gas_fee_receiver, gas_cost)

\* `init, payer = payer`: the system program creates the zeroed account and
\* moves its rent from the payer.  The new account is the last of w.outgoing.
init_outgoing_message(w, payer) ==
    IF w.lamports[payer] < Rent THEN Err("InsufficientFunds", w)
    ELSE Ok([w EXCEPT !.lamports[payer] = @ - Rent,
                      !.outgoing = Append(@, DefaultOutgoingMessage)])

write_outgoing_message(w, message) ==
    [w EXCEPT !.outgoing[Len(w.outgoing)] = message]

\* `address = GAS_FEE_RECEIVER @ IncorrectGasFeeReceiver` of the accounts structs
\* BridgeCall, BridgeSolCommon, BridgeSplCommon, BridgeWrappedTokenCommon, WrapToken.
HardcodedGasFeeReceiver(gas_fee_receiver) == gas_fee_receiver = GAS_FEE_RECEIVER

BridgeCall_accounts(w, payer, gas_fee_receiver) ==
    IF ~HardcodedGasFeeReceiver(gas_fee_receiver) THEN Err("IncorrectGasFeeReceiver", w)
    ELSE init_outgoing_message(w, payer)

bridge_call_handler(w, t, payer, from, gas_fee_receiver, gas_limit, call) ==
    IF w.bridge.paused THEN Err("BridgePaused", w)
    ELSE IF ~check_call(call) THEN Err("CreationWithNonZeroTarget", w)
    ELSE LET message == new_call(w.bridge.nonce, payer, from, gas_limit, call)
             paid == check_and_pay_for_gas(w, t, payer, gas_fee_receiver, gas_limit,
                                           relay_messages_tx_size(message))
         IN  IF ~paid.ok THEN paid
             ELSE Ok([write_outgoing_message(paid.w, message)
                         EXCEPT !.bridge.nonce = @ + 1])

\* The instruction: account validation, then the handler.
bridge_call(w, t, payer, from, gas_fee_receiver, gas_limit, call) ==
    LET accounts == BridgeCall_accounts(w, payer, gas_fee_receiver) IN
    IF ~accounts.ok THEN accounts
    ELSE bridge_call_handler(accounts.w, t, payer, from, gas_fee_receiver, gas_limit, call)

-----------------------------------------------------------------------------
(* Token program *)

transfer_checked(w, mint, from, to, amount) ==
    IF w.tokens.bal[mint][from] < amount THEN Err("TokenInsufficientFunds", w)
    ELSE Ok([w EXCEPT !.tokens.bal[mint][from] = @ - amount,
                      !.tokens.bal[mint][to] = @ + amount])

burn_checked(w, mint, from, amount) ==
    IF w.tokens.bal[mint][from] < amount THEN Err("TokenInsufficientFunds", w)
    ELSE Ok([w EXCEPT !.tokens.bal[mint][from] = @ - amount])

\* A mint account that deserializes as a Mint.
MintExists(w, mint) == mint # WRAPPED_MINT \/ w.tokens.wrapped_exists

\* PartialTokenMetadata::try_from(mint).is_ok(): the mint embeds the metadata
\* keys the bridge writes; the mint's address is not looked at.
HasPartialTokenMetadata(mint) == mint \in {WRAPPED_MINT, FOREIGN_MINT}

-----------------------------------------------------------------------------
(* bridge_sol *)

BridgeSol_accounts(w, payer, gas_fee_receiver) ==
    IF ~HardcodedGasFeeReceiver(gas_fee_receiver) THEN Err("IncorrectGasFeeReceiver", w)
    ELSE init_outgoing_message(w, payer)

bridge_sol_handler(w, t, payer, from, gas_fee_receiver, gas_limit, to, remote_token, amount, call) ==
    IF call # None /\ ~check_call(call[1]) THEN Err("CreationWithNonZeroTarget", w)
    ELSE LET message == new_transfer(w.bridge.nonce, payer, from, gas_limit,
                            TransferOp(to, NATIVE_SOL_PUBKEY, remote_token, amount, call))
             paid == check_and_pay_for_gas(w, t, payer, gas_fee_receiver, gas_limit,
                                           relay_messages_tx_size(message))
             locked == transfer(paid.w, from, SOL_VAULT, amount)
         IN  IF ~paid.ok THEN paid
             ELSE IF ~locked.ok THEN locked
             ELSE Ok([write_outgoing_message(locked.w, message)
                         EXCEPT !.bridge.nonce = @ + 1])

bridge_sol(w, t, payer, from, gas_fee_receiver, gas_limit, to, remote_token, amount, call) ==
    LET accounts == BridgeSol_accounts(w, payer, gas_fee_receiver) IN
    IF ~accounts.ok THEN accounts
    ELSE bridge_sol_handler(accounts.w, t, payer, from, gas_fee_receiver, gas_limit, to,
                            remote_token, amount, call)

-----------------------------------------------------------------------------
(* bridge_spl *)

\* token_vault is init_if_needed: its rent is taken the first time a mint is used.
BridgeSpl_accounts(w, payer, gas_fee_receiver, mint) ==
    IF ~HardcodedGasFeeReceiver(gas_fee_receiver) THEN Err("IncorrectGasFeeReceiver", w)
    ELSE IF ~MintExists(w, mint) THEN Err("AccountNotInitialized", w)
    ELSE LET vault == IF mint \in w.tokens.vaults THEN Ok(w)
                      ELSE IF w.lamports[payer] < Rent THEN Err("InsufficientFunds", w)
                      ELSE Ok([w EXCEPT !.lamports[payer] = @ - Rent,
                                        !.tokens.vaults = @ \cup {mint}])
         IN  IF ~vault.ok THEN vault ELSE init_outgoing_message(vault.w, payer)

\* bridge_spl_handler with the result of the fee charge dropped: the handler
\* returns Ok with the tokens locked when check_and_pay_for_gas fails.
bridge_spl_handler_ignoring_fee_error(w, t, payer, from, gas_fee_receiver, mint, gas_limit, to, remote_token, amount, call) ==
    IF call # None /\ ~check_call(call[1]) THEN Err("CreationWithNonZeroTarget", w)
    ELSE IF HasPartialTokenMetadata(mint) THEN Err("MintIsWrappedToken", w)
    ELSE LET token_vault == token_vault_pda(mint, remote_token)
             token_vault_balance == w.tokens.bal[mint][token_vault]
             locked == transfer_checked(w, mint, from, token_vault, amount)
             received_amount == locked.w.tokens.bal[mint][token_vault] - token_vault_balance
             message == new_transfer(w.bridge.nonce, payer, from, gas_limit,
                            TransferOp(to, mint, remote_token, received_amount, call))
             paid == check_and_pay_for_gas(locked.w, t, payer, gas_fee_receiver, gas_limit,
                                           relay_messages_tx_size(message))
         IN  IF ~locked.ok THEN locked
             ELSE IF ~paid.ok THEN Ok(locked.w)
             ELSE Ok([write_outgoing_message(paid.w, message)
                         EXCEPT !.bridge.nonce = @ + 1])

bridge_spl_handler(w, t, payer, from, gas_fee_receiver, mint, gas_limit, to, remote_token, amount, call) ==
    IF call # None /\ ~check_call(call[1]) THEN Err("CreationWithNonZeroTarget", w)
    ELSE IF HasPartialTokenMetadata(mint) THEN Err("MintIsWrappedToken", w)
    ELSE LET token_vault == token_vault_pda(mint, remote_token)
             token_vault_balance == w.tokens.bal[mint][token_vault]
             locked == transfer_checked(w, mint, from, token_vault, amount)
             received_amount == locked.w.tokens.bal[mint][token_vault] - token_vault_balance
             message == new_transfer(w.bridge.nonce, payer, from, gas_limit,
                            TransferOp(to, mint, remote_token, received_amount, call))
             paid == check_and_pay_for_gas(locked.w, t, payer, gas_fee_receiver, gas_limit,
                                           relay_messages_tx_size(message))
         IN  IF ~locked.ok THEN locked
             ELSE IF ~paid.ok THEN paid
             ELSE Ok([write_outgoing_message(paid.w, message)
                         EXCEPT !.bridge.nonce = @ + 1])

bridge_spl(w, t, payer, from, gas_fee_receiver, mint, gas_limit, to, remote_token, amount, call) ==
    LET accounts == BridgeSpl_accounts(w, payer, gas_fee_receiver, mint) IN
    IF ~accounts.ok THEN accounts
    ELSE bridge_spl_handler(accounts.w, t, payer, from, gas_fee_receiver, mint, gas_limit,
                            to, remote_token, amount, call)

-----------------------------------------------------------------------------
(* bridge_wrapped_token *)

BridgeWrappedToken_accounts(w, payer, gas_fee_receiver, mint) ==
    IF ~HardcodedGasFeeReceiver(gas_fee_receiver) THEN Err("IncorrectGasFeeReceiver", w)
    ELSE IF ~MintExists(w, mint) THEN Err("AccountNotInitialized", w)
    ELSE init_outgoing_message(w, payer)

bridge_wrapped_token_handler(w, t, payer, from, gas_fee_receiver, mint, gas_limit, to, amount, call) ==
    IF call # None /\ ~check_call(call[1]) THEN Err("CreationWithNonZeroTarget", w)
    ELSE IF ~HasPartialTokenMetadata(mint) THEN Err("MintIsNotWrappedToken", w)
    ELSE LET message == new_transfer(w.bridge.nonce, payer, from, gas_limit,
                            TransferOp(to, mint, REMOTE_TOKEN, amount, call))
             paid == check_and_pay_for_gas(w, t, payer, gas_fee_receiver, gas_limit,
                                           relay_messages_tx_size(message))
             burned == burn_checked(paid.w, mint, from, amount)
         IN  IF ~paid.ok THEN paid
             ELSE IF ~burned.ok THEN burned
             ELSE Ok([write_outgoing_message(burned.w, message)
                         EXCEPT !.bridge.nonce = @ + 1])

bridge_wrapped_token(w, t, payer, from, gas_fee_receiver, mint, gas_limit, to, amount, call) ==
    LET accounts == BridgeWrappedToken_accounts(w, payer, gas_fee_receiver, mint) IN
    IF ~accounts.ok THEN accounts
    ELSE bridge_wrapped_token_handler(accounts.w, t, payer, from, gas_fee_receiver, mint,
                                      gas_limit, to, amount, call)

-----------------------------------------------------------------------------
(* wrap_token *)

REGISTER_REMOTE_TOKEN_DATA_LEN == 32 + 32 + 32

\* abi.encode(address, bytes32, uint8) of the wrapped mint of the model.
register_remote_token_data == [i \in 1..REGISTER_REMOTE_TOKEN_DATA_LEN |-> 0]

\* The mint is `init` at its PDA, so a second wrap of the same metadata fails.
WrapToken_accounts(w, payer, gas_fee_receiver) ==
    IF ~HardcodedGasFeeReceiver(gas_fee_receiver) THEN Err("IncorrectGasFeeReceiver", w)
    ELSE IF w.tokens.wrapped_exists THEN Err("AccountAlreadyInUse", w)
    ELSE IF w.lamports[payer] < Rent THEN Err("InsufficientFunds", w)
    ELSE init_outgoing_message(
             [w EXCEPT !.lamports[payer] = @ - Rent, !.tokens.wrapped_exists = TRUE],
             payer)

\* The lamports for the metadata leave the payer for the mint account.
initialize_metadata(w, payer) ==
    IF w.lamports[payer] < Rent THEN Err("InsufficientFunds", w)
    ELSE Ok([w EXCEPT !.lamports[payer] = @ - Rent])

register_remote_token(w, t, payer, gas_fee_receiver, gas_limit) ==
    LET call == Call("Call", ZERO_ADDRESS, 0, register_remote_token_data)
        message == new_call(w.bridge.nonce, payer, PROGRAM_ID, gas_limit, call)
        paid == check_and_pay_for_gas(w, t, payer, gas_fee_receiver, gas_limit,
                                      relay_messages_tx_size(message))
    IN  IF ~paid.ok THEN paid
        ELSE Ok([write_outgoing_message(paid.w, message) EXCEPT !.bridge.nonce = @ + 1])

wrap_token_handler(w, t, payer, gas_fee_receiver, gas_limit) ==
    LET meta == initialize_metadata(w, payer) IN
    IF ~meta.ok THEN meta
    ELSE register_remote_token(meta.w, t, payer, gas_fee_receiver, gas_limit)

wrap_token(w, t, payer, gas_fee_receiver, gas_limit) ==
    LET accounts == WrapToken_accounts(w, payer, gas_fee_receiver) IN
    IF ~accounts.ok THEN accounts
    ELSE wrap_token_handler(accounts.w, t, payer, gas_fee_receiver, gas_limit)

-----------------------------------------------------------------------------
(* Call buffers *)

BufferIds == {"buf1"}
NoBuffer ==
    [ exists |-> FALSE, owner |-> "", ty |-> "Call", to |-> ZERO_ADDRESS, value |-> 0,
      data |-> << >>, capacity |-> 0 ]

\* The client allocates the account with room for `capacity` bytes of call data
\* before the instruction; its rent is taken from the payer here.
initialize_call_buffer(w, payer, buf, capacity, ty, to, value, initial_data) ==
    IF capacity > MAX_CALL_BUFFER_SIZE THEN Err("MaxSizeExceeded", w)
    ELSE IF w.buffers[buf].exists THEN Err("AlreadyInitialized", w)
    ELSE IF Len(initial_data) > capacity THEN Err("AccountDidNotSerialize", w)
    ELSE IF w.lamports[payer] < Rent THEN Err("InsufficientFunds", w)
    ELSE Ok([w EXCEPT !.lamports[payer] = @ - Rent,
                      !.buffers[buf] = [ exists |-> TRUE, owner |-> payer, ty |-> ty,
                                         to |-> to, value |-> value,
                                         data |-> initial_data, capacity |-> capacity ]])

\* The buffer deserializes as a CallBuffer; no `has_one = owner`.
CallBuffer_has_one_owner_unchecked(w, owner, buf) ==
    IF ~w.buffers[buf].exists THEN Err("AccountNotInitialized", w) ELSE Ok(w)

\* has_one = owner, and the buffer must deserialize as a CallBuffer.
CallBuffer_has_one_owner(w, owner, buf) ==
    IF ~w.buffers[buf].exists THEN Err("AccountNotInitialized", w)
    ELSE IF w.buffers[buf].owner # owner THEN Err("Unauthorized", w)
    ELSE Ok(w)

append_to_call_buffer(w, owner, buf, data) ==
    LET accounts == CallBuffer_has_one_owner(w, owner, buf) IN
    IF ~accounts.ok THEN accounts
    ELSE IF Len(w.buffers[buf].data) + Len(data) > w.buffers[buf].capacity
    THEN Err("AccountDidNotSerialize", w)
    ELSE Ok([w EXCEPT !.buffers[buf].data = @ \o data])

\* `close = owner`, performed when the instruction exits.
\* `close = owner` returning the rent without closing the account.
close_account_call_buffer_keeping_buffer(w, owner, buf) ==
    [w EXCEPT !.lamports[owner] = @ + Rent]

close_account_call_buffer(w, owner, buf) ==
    [w EXCEPT !.buffers[buf] = NoBuffer, !.lamports[owner] = @ + Rent]

close_call_buffer(w, owner, buf) ==
    LET accounts == CallBuffer_has_one_owner(w, owner, buf) IN
    IF ~accounts.ok THEN accounts
    ELSE Ok(close_account_call_buffer(w, owner, buf))

buffered_call(w, buf) ==
    Call(w.buffers[buf].ty, w.buffers[buf].to, w.buffers[buf].value, w.buffers[buf].data)

-----------------------------------------------------------------------------
(* Buffered outbound instructions *)

\* The handlers of bridge_sol.rs, bridge_spl.rs and bridge_wrapped_token.rs build
\* a second accounts struct from clones of their accounts and run the inline
\* handler on it.  Cloning an Account copies the deserialized data, so what the
\* inline handler assigns to bridge and outgoing_message stays in the copies; the
\* accounts written back when the instruction exits are the untouched originals.
\* Lamport and token movements are made by other programs and do persist.
exit_original_accounts(accounts, handled) ==
    [handled EXCEPT !.bridge = accounts.bridge, !.outgoing = accounts.outgoing]

BridgeSolWithBufferedCall_accounts(w, payer, gas_fee_receiver, owner, buf) ==
    IF ~HardcodedGasFeeReceiver(gas_fee_receiver) THEN Err("IncorrectGasFeeReceiver", w)
    ELSE IF ~CallBuffer_has_one_owner(w, owner, buf).ok
    THEN CallBuffer_has_one_owner(w, owner, buf)
    ELSE init_outgoing_message(w, payer)

bridge_sol_with_buffered_call(w, t, payer, from, gas_fee_receiver, owner, buf, gas_limit, to, remote_token, amount) ==
    LET accounts == BridgeSolWithBufferedCall_accounts(w, payer, gas_fee_receiver, owner, buf)
        handled == bridge_sol_handler(accounts.w, t, payer, from, gas_fee_receiver,
                       gas_limit, to, remote_token, amount, Some(buffered_call(w, buf)))
    IN  IF ~accounts.ok THEN accounts
        ELSE IF ~handled.ok THEN handled
        ELSE Ok(close_account_call_buffer(exit_original_accounts(accounts.w, handled.w),
                                          owner, buf))

BridgeSplWithBufferedCall_accounts(w, payer, gas_fee_receiver, mint, owner, buf) ==
    IF ~HardcodedGasFeeReceiver(gas_fee_receiver) THEN Err("IncorrectGasFeeReceiver", w)
    ELSE IF ~MintExists(w, mint) THEN Err("AccountNotInitialized", w)
    ELSE LET vault == IF mint \in w.tokens.vaults THEN Ok(w)
                      ELSE IF w.lamports[payer] < Rent THEN Err("InsufficientFunds", w)
                      ELSE Ok([w EXCEPT !.lamports[payer] = @ - Rent,
                                        !.tokens.vaults = @ \cup {mint}])
         IN  IF ~vault.ok THEN vault
             ELSE IF ~CallBuffer_has_one_owner(vault.w, owner, buf).ok
             THEN CallBuffer_has_one_owner(vault.w, owner, buf)
             ELSE init_outgoing_message(vault.w, payer)

bridge_spl_with_buffered_call(w, t, payer, from, gas_fee_receiver, mint, owner, buf, gas_limit, to, remote_token, amount) ==
    LET accounts == BridgeSplWithBufferedCall_accounts(w, payer, gas_fee_receiver, mint,
                                                       owner, buf)
        handled == bridge_spl_handler(accounts.w, t, payer, from, gas_fee_receiver, mint,
                       gas_limit, to, remote_token, amount, Some(buffered_call(w, buf)))
    IN  IF ~accounts.ok THEN accounts
        ELSE IF ~handled.ok THEN handled
        ELSE Ok(close_account_call_buffer(exit_original_accounts(accounts.w, handled.w),
                                          owner, buf))

BridgeWrappedTokenWithBufferedCall_accounts(w, payer, gas_fee_receiver, mint, owner, buf) ==
    IF ~HardcodedGasFeeReceiver(gas_fee_receiver) THEN Err("IncorrectGasFeeReceiver", w)
    ELSE IF ~MintExists(w, mint) THEN Err("AccountNotInitialized", w)
    ELSE IF ~CallBuffer_has_one_owner(w, owner, buf).ok
    THEN CallBuffer_has_one_owner(w, owner, buf)
    ELSE init_outgoing_message(w, payer)

bridge_wrapped_token_with_buffered_call(w, t, payer, from, gas_fee_receiver, mint, owner, buf, gas_limit, to, amount) ==
    LET accounts == BridgeWrappedTokenWithBufferedCall_accounts(w, payer, gas_fee_receiver,
                                                                mint, owner, buf)
        handled == bridge_wrapped_token_handler(accounts.w, t, payer, from,
                       gas_fee_receiver, mint, gas_limit, to, amount,
                       Some(buffered_call(w, buf)))
    IN  IF ~accounts.ok THEN accounts
        ELSE IF ~handled.ok THEN handled
        ELSE Ok(close_account_call_buffer(exit_original_accounts(accounts.w, handled.w),
                                          owner, buf))

\* buffered/bridge_call.rs and buffered/bridge_sol.rs take any account as
\* gas_fee_receiver, compare it in the handler with the configured receiver and
\* hand over to bridge_call_internal / bridge_sol_internal, which work on the
\* accounts themselves.
BridgeCallBuffered_accounts(w, payer, owner, buf) ==
    IF ~CallBuffer_has_one_owner(w, owner, buf).ok
    THEN CallBuffer_has_one_owner(w, owner, buf)
    ELSE init_outgoing_message(w, payer)

bridge_call_internal(w, t, payer, from, gas_fee_receiver, gas_limit, call) ==
    IF ~check_call(call) THEN Err("CreationWithNonZeroTarget", w)
    ELSE LET message == new_call(w.bridge.nonce, payer, from, gas_limit, call)
             paid == check_and_pay_for_gas(w, t, payer, gas_fee_receiver, gas_limit,
                                           relay_messages_tx_size(message))
         IN  IF ~paid.ok THEN paid
             ELSE Ok([write_outgoing_message(paid.w, message)
                         EXCEPT !.bridge.nonce = @ + 1])

bridge_call_buffered_handler(w, t, payer, from, gas_fee_receiver, buf, gas_limit) ==
    IF gas_fee_receiver # w.bridge.gas_cost_config.gas_fee_receiver
    THEN Err("IncorrectGasFeeReceiver", w)
    ELSE bridge_call_internal(w, t, payer, from, gas_fee_receiver, gas_limit,
                              buffered_call(w, buf))

bridge_call_buffered(w, t, payer, from, gas_fee_receiver, owner, buf, gas_limit) ==
    LET accounts == BridgeCallBuffered_accounts(w, payer, owner, buf)
        handled == bridge_call_buffered_handler(accounts.w, t, payer, from,
                                                gas_fee_receiver, buf, gas_limit)
    IN  IF ~accounts.ok THEN accounts
        ELSE IF ~handled.ok THEN handled
        ELSE Ok(close_account_call_buffer(handled.w, owner, buf))

bridge_sol_internal(w, t, payer, from, gas_fee_receiver, gas_limit, to, remote_token, amount, call) ==
    IF call # None /\ ~check_call(call[1]) THEN Err("CreationWithNonZeroTarget", w)
    ELSE LET message == new_transfer(w.bridge.nonce, payer, from, gas_limit,
                            TransferOp(to, NATIVE_SOL_PUBKEY, remote_token, amount, call))
             paid == check_and_pay_for_gas(w, t, payer, gas_fee_receiver, gas_limit,
                                           relay_messages_tx_size(message))
             locked == transfer(paid.w, from, SOL_VAULT, amount)
         IN  IF ~paid.ok THEN paid
             ELSE IF ~locked.ok THEN locked
             ELSE Ok([write_outgoing_message(locked.w, message)
                         EXCEPT !.bridge.nonce = @ + 1])

buffered_bridge_sol_with_buffered_call_handler(w, t, payer, from, gas_fee_receiver, buf, gas_limit, to, remote_token, amount) ==
    IF gas_fee_receiver # w.bridge.gas_cost_config.gas_fee_receiver
    THEN Err("IncorrectGasFeeReceiver", w)
    ELSE bridge_sol_internal(w, t, payer, from, gas_fee_receiver, gas_limit, to,
                             remote_token, amount, Some(buffered_call(w, buf)))

buffered_bridge_sol_with_buffered_call(w, t, payer, from, gas_fee_receiver, owner, buf, gas_limit, to, remote_token, amount) ==
    LET accounts == BridgeCallBuffered_accounts(w, payer, owner, buf)
        handled == buffered_bridge_sol_with_buffered_call_handler(accounts.w, t, payer,
                       from, gas_fee_receiver, buf, gas_limit, to, remote_token, amount)
    IN  IF ~accounts.ok THEN accounts
        ELSE IF ~handled.ok THEN handled
        ELSE Ok(close_account_call_buffer(handled.w, owner, buf))

-----------------------------------------------------------------------------
(* Guardian instructions *)

\* SetBridgeConfig without `has_one = guardian`.
SetBridgeConfig_accounts_without_has_one(w, guardian) == Ok(w)

\* `has_one = guardian @ UnauthorizedConfigUpdate` of SetBridgeConfig
SetBridgeConfig_accounts(w, guardian) ==
    IF guardian # w.bridge.guardian THEN Err("UnauthorizedConfigUpdate", w) ELSE Ok(w)

set_minimum_base_fee_handler(w, new_fee) ==
    IF ~(new_fee > 0 /\ new_fee <= 1000000000) THEN Err("BaseFee", w)
    ELSE Ok([w EXCEPT !.bridge.eip1559.minimum_base_fee = new_fee])

set_window_duration_handler(w, new_duration) ==
    IF ~(new_duration > 0 /\ new_duration <= 3600) THEN Err("WindowDuration", w)
    ELSE Ok([w EXCEPT !.bridge.eip1559.window_duration_seconds = new_duration])

set_gas_target_handler(w, new_target) ==
    IF ~(new_target > 0 /\ new_target <= 1000000000) THEN Err("GasTarget", w)
    ELSE Ok([w EXCEPT !.bridge.eip1559.target = new_target])

set_max_call_buffer_size_handler(w, new_size) ==
    IF ~(new_size > 0 /\ new_size <= 64 * 1024) THEN Err("BufferSize", w)
    ELSE Ok([w EXCEPT !.bridge.limits_config.max_call_buffer_size = new_size])

set_adjustment_denominator_handler(w, new_denominator) ==
    IF ~(new_denominator \in 1..100) THEN Err("AdjustmentDenominator", w)
    ELSE Ok([w EXCEPT !.bridge.eip1559.denominator = new_denominator])

set_gas_cost_scaler_handler(w, new_scaler) ==
    IF ~(new_scaler > 0 /\ new_scaler <= 1000000000) THEN Err("GasScaler", w)
    ELSE Ok([w EXCEPT !.bridge.gas_cost_config.gas_cost_scaler = new_scaler])

set_gas_cost_scaler_dp_handler(w, new_dp) ==
    IF ~(new_dp > 0 /\ new_dp <= 1000000000) THEN Err("GasScalerDP", w)
    ELSE Ok([w EXCEPT !.bridge.gas_cost_config.gas_cost_scaler_dp = new_dp])

set_max_gas_limit_per_message_handler(w, new_limit) ==
    IF ~(new_limit > 0 /\ new_limit <= 1000000000) THEN Err("GasLimit", w)
    ELSE Ok([w EXCEPT !.bridge.gas_config.max_gas_limit_per_message = new_limit])

set_base_gas_buffer_handler(w, new_cost) ==
    IF ~(new_cost > 0 /\ new_cost <= 1000000) THEN Err("BaseGasBuffer", w)
    ELSE Ok([w EXCEPT !.bridge.gas_config.base_transaction_cost = new_cost])

set_extra_gas_buffer_handler(w, new_buffer) ==
    IF ~(new_buffer <= 1000000) THEN Err("ExtraGasBuffer", w)
    ELSE Ok([w EXCEPT !.bridge.gas_config.extra = new_buffer])

set_execution_prologue_gas_buffer_handler(w, new_buffer) ==
    IF ~(new_buffer <= 1000000) THEN Err("ExecutionPrologueGasBuffer", w)
    ELSE Ok([w EXCEPT !.bridge.gas_config.execution_prologue = new_buffer])

set_execution_gas_buffer_handler(w, new_buffer) ==
    IF ~(new_buffer <= 1000000) THEN Err("ExecutionGasBuffer", w)
    ELSE Ok([w EXCEPT !.bridge.gas_config.execution = new_buffer])

set_execution_epilogue_gas_buffer_handler(w, new_buffer) ==
    IF ~(new_buffer <= 1000000) THEN Err("ExecutionEpilogueGasBuffer", w)
    ELSE Ok([w EXCEPT !.bridge.gas_config.execution_epilogue = new_buffer])

set_gas_fee_receiver_handler(w, new_receiver) ==
    Ok([w EXCEPT !.bridge.gas_cost_config.gas_fee_receiver = new_receiver])

set_block_interval_requirement_handler(w, new_interval) ==
    IF ~(new_interval > 0 /\ new_interval <= 10000) THEN Err("BlockInterval", w)
    ELSE Ok([w EXCEPT !.bridge.protocol_config.block_interval_requirement = new_interval])

set_pause_status_handler(w, new_paused) ==
    Ok([w EXCEPT !.bridge.paused = new_paused])

is_guardian(b, key) == key = b.guardian

pause_switch_handler(w, guardian) ==
    IF ~is_guardian(w.bridge, guardian) THEN Err("Unauthorized", w)
    ELSE Ok([w EXCEPT !.bridge.paused = ~@])

TransferGuardian_accounts(w, guardian) ==
    IF guardian # w.bridge.guardian THEN Err("UnauthorizedGuardianTransfer", w) ELSE Ok(w)

transfer_guardian(w, new_guardian) ==
    Ok([w EXCEPT !.bridge.guardian = new_guardian])

\* A guardian instruction: the accounts constraint, then the handler's result.
Guarded(accounts, handled) == IF ~accounts.ok THEN accounts ELSE handled

-----------------------------------------------------------------------------
(* close_outgoing_message *)

\* The handler is empty: the constraints of CloseOutgoingMessage do the work and
\* `close = original_payer` hands the rent over when the instruction exits.
close_outgoing_message(w, original_payer, k) ==
    IF k \notin 1..Len(w.outgoing) \/ w.outgoing[k].closed
    THEN Err("AccountNotInitialized", w)
    ELSE IF ~(w.bridge.base_last_relayed_nonce >= w.outgoing[k].nonce)
    THEN Err("MessageNotRelayed", w)
    ELSE IF w.outgoing[k].original_payer # original_payer
    THEN Err("IncorrectOriginalPayer", w)
    ELSE Ok([w EXCEPT !.outgoing[k].closed = TRUE,
                      !.lamports[original_payer] = @ + Rent])

-----------------------------------------------------------------------------
(* Oracle signer registry *)

OracleSigners_contains(os, evm_addr) ==
    LET active_len == Min(os.signer_count, Len(os.signers))
    IN  \E i \in 1..active_len : os.signers[i] = evm_addr

OracleSigners_count_approvals(os, signers) ==
    Cardinality({ i \in 1..Len(signers) : OracleSigners_contains(os, signers[i]) })

\* BaseOracleConfig::validate without the uniqueness check.
BaseOracleConfig_validate_without_dedup(cfg) ==
    IF ~(cfg.oracle_threshold > 0 /\ cfg.oracle_threshold <= cfg.signer_count)
    THEN "InvalidThreshold"
    ELSE IF ~(cfg.signer_count <= Len(cfg.oracle_signer_addrs))
    THEN "TooManySigners"
    ELSE ""

\* BaseOracleConfig::validate; "" stands for Ok(())
BaseOracleConfig_validate(cfg) ==
    IF ~(cfg.oracle_threshold > 0 /\ cfg.oracle_threshold <= cfg.signer_count)
    THEN "InvalidThreshold"
    ELSE IF ~(cfg.signer_count <= Len(cfg.oracle_signer_addrs))
    THEN "TooManySigners"
    ELSE IF Cardinality({ cfg.oracle_signer_addrs[i] : i \in 1..cfg.signer_count })
              # cfg.signer_count
    THEN "DuplicateSigner"
    ELSE ""

\* `has_one = guardian` of SetOracleSigners
SetOracleSigners_accounts(w, guardian) ==
    IF guardian # w.bridge.guardian THEN Err("ConstraintHasOne", w) ELSE Ok(w)

set_oracle_signers_handler(w, cfg) ==
    IF BaseOracleConfig_validate(cfg) # "" THEN Err(BaseOracleConfig_validate(cfg), w)
    ELSE Ok([w EXCEPT !.oracle_signers =
                 [ threshold |-> cfg.oracle_threshold,
                   signer_count |-> cfg.signer_count,
                   signers |-> cfg.oracle_signer_addrs ]])

set_oracle_signers(w, guardian, cfg) ==
    Guarded(SetOracleSigners_accounts(w, guardian), set_oracle_signers_handler(w, cfg))

-----------------------------------------------------------------------------
(* register_output_root *)

\* keccak256(output_root ++ block_number): distinct inputs, distinct hashes
create_ism_message_hash(output_root, block_number) == << output_root, block_number >>

\* A 65 byte signature is modelled by the key that made it, the hash it was made
\* over and its recovery byte; `addr` is the 20 byte address sent along with it.
Signature(addr, key, message_hash, v) ==
    [ addr |-> addr, key |-> key, msg |-> message_hash, v |-> v ]

\* Recovery yields the signing key for the signed hash and an unrelated key for
\* any other hash.
secp256k1_recover(message_hash, sig) ==
    IF sig.msg = message_hash THEN sig.key ELSE "0xunrelated"

is_trusted_oracle(oracle_eth_address) == TRUE

\* "" stands for Ok(true); the function has no Ok(false) outcome.
verify_secp256k1_signature(sig, message_hash, expected_pubkey) ==
    IF sig.v - 27 \notin 0..3 THEN "InvalidRecoveryId"
    ELSE IF secp256k1_recover(message_hash, sig) # expected_pubkey THEN "InvalidPublicKey"
    ELSE IF ~is_trusted_oracle(expected_pubkey) THEN "UntrustedOracle"
    ELSE ""

parse_ism_from_remaining_accounts(signatures) ==
    IF signatures = << >> THEN "InsufficientSignatures" ELSE ""

verify_m_of_n_signatures(output_root, block_number, signatures) ==
    LET message_hash == create_ism_message_hash(output_root, block_number)
        verdict(i) == verify_secp256k1_signature(signatures[i], message_hash,
                                                 signatures[i].addr)
        failing == { i \in 1..Len(signatures) : verdict(i) # "" }
        valid_signatures == Len(signatures) - Cardinality(failing)
    IN  IF ~(Len(signatures) >= MINIMUM_THRESHOLD) THEN "InsufficientSignatures"
        ELSE IF failing # {}
        THEN verdict(CHOOSE i \in failing : \A j \in failing : i <= j)
        ELSE IF ~(valid_signatures >= MINIMUM_THRESHOLD) THEN "InsufficientSignatures"
        ELSE ""

OutputRootExists(w, block_number) == \E r \in w.roots : r.block = block_number

\* `address = TRUSTED_ORACLE` on the payer, `init` of the root PDA of the block
\* RegisterOutputRoot without `address = TRUSTED_ORACLE` on the payer.
RegisterOutputRoot_accounts_any_payer(w, payer, block_number) ==
    IF OutputRootExists(w, block_number) THEN Err("AccountAlreadyInUse", w)
    ELSE IF w.lamports[payer] < Rent THEN Err("InsufficientFunds", w)
    ELSE Ok([w EXCEPT !.lamports[payer] = @ - Rent])

RegisterOutputRoot_accounts(w, payer, block_number) ==
    IF payer # TRUSTED_ORACLE THEN Err("Unauthorized", w)
    ELSE IF OutputRootExists(w, block_number) THEN Err("AccountAlreadyInUse", w)
    ELSE IF w.lamports[payer] < Rent THEN Err("InsufficientFunds", w)
    ELSE Ok([w EXCEPT !.lamports[payer] = @ - Rent])

register_output_root_handler(w, output_root, block_number, signatures) ==
    IF ~(block_number > w.bridge.base_block_number
            /\ block_number % REGISTER_BLOCK_INTERVAL = 0)
    THEN Err("IncorrectBlockNumber", w)
    ELSE IF parse_ism_from_remaining_accounts(signatures) # ""
    THEN Err(parse_ism_from_remaining_accounts(signatures), w)
    ELSE IF verify_m_of_n_signatures(output_root, block_number, signatures) # ""
    THEN Err(verify_m_of_n_signatures(output_root, block_number, signatures), w)
    ELSE Ok([w EXCEPT !.roots = @ \cup {[block |-> block_number, root |-> output_root]},
                      !.bridge.base_block_number = block_number])

register_output_root(w, payer, output_root, block_number, signatures) ==
    LET accounts == RegisterOutputRoot_accounts(w, payer, block_number)
    IN  IF ~accounts.ok THEN accounts
        ELSE LET handled == register_output_root_handler(accounts.w, output_root,
                                                         block_number, signatures)
             IN  IF handled.ok THEN handled ELSE Err(handled.err, w)

-----------------------------------------------------------------------------
(* prove_message and relay_message *)

ROOT_A == "root_a"
ROOT_B == "root_b"
REMOTE_SENDER == "0xsender"

\* The instruction a relayed message invokes in another program.
Ix(program_id, data) == [program_id |-> program_id, data |-> data]
DOWNSTREAM_IX == Ix(<< "other_program" >>, [bytes |-> << >>])

FinalizeBridgeSpl(remote_token, local_token, to, amount) ==
    [ remote_token |-> remote_token, local_token |-> local_token, to |-> to,
      amount |-> amount ]

\* The messages Base sent: a call, a token release, a token release with a call.
MESSAGE_CALL ==
    [ nonce |-> 0, sender |-> REMOTE_SENDER,
      data |-> [kind |-> "Call", ixs |-> << DOWNSTREAM_IX >>] ]
MESSAGE_TRANSFER ==
    [ nonce |-> 1, sender |-> REMOTE_SENDER,
      data |-> [ kind |-> "Transfer",
                 transfer |-> FinalizeBridgeSpl(REMOTE_TOKEN, SPL_MINT, "bob", 1),
                 ixs |-> << >> ] ]
MESSAGE_TRANSFER_AND_CALL ==
    [ nonce |-> 2, sender |-> REMOTE_SENDER,
      data |-> [ kind |-> "Transfer",
                 transfer |-> FinalizeBridgeSpl(REMOTE_TOKEN, SPL_MINT, "bob", 1),
                 ixs |-> << DOWNSTREAM_IX >> ] ]
Messages == {MESSAGE_CALL, MESSAGE_TRANSFER, MESSAGE_TRANSFER_AND_CALL}

\* keccak256(nonce ++ sender ++ data): distinct inputs, distinct hashes
hash_message(nonce, sender, data) == << nonce, sender, data >>

MessageHashes == { hash_message(m.nonce, m.sender, m.data) : m \in Messages }

\* The leaves the MMR behind an output root commits to.
Committed(root) == IF root = ROOT_A THEN MessageHashes ELSE {}

mmr_verify_proof(root, leaf, proof) ==
    IF proof = "valid" /\ leaf \in Committed(root) THEN "" ELSE "InvalidProof"

NoIncomingMessage ==
    [ exists |-> FALSE, executed |-> FALSE, sender |-> "",
      message |-> [kind |-> "Call", ixs |-> << >>] ]

\* ProveMessage with `init_if_needed` in place of `init` on the message account.
ProveMessage_accounts_init_if_needed(w, payer, output_root, message_hash) ==
    IF output_root \notin w.roots THEN Err("AccountNotInitialized", w)
    ELSE IF message_hash \notin MessageHashes THEN Err("ConstraintSeeds", w)
    ELSE IF w.incoming[message_hash].exists THEN Ok(w)
    ELSE IF w.lamports[payer] < Rent THEN Err("InsufficientFunds", w)
    ELSE Ok([w EXCEPT !.lamports[payer] = @ - Rent])

\* The output root must be an initialized OutputRoot account; `init` of the
\* message PDA of the hash, paid by the payer.
ProveMessage_accounts(w, payer, output_root, message_hash) ==
    IF output_root \notin w.roots THEN Err("AccountNotInitialized", w)
    ELSE IF message_hash \notin MessageHashes THEN Err("ConstraintSeeds", w)
    ELSE IF w.incoming[message_hash].exists THEN Err("AccountAlreadyInUse", w)
    ELSE IF w.lamports[payer] < Rent THEN Err("InsufficientFunds", w)
    ELSE Ok([w EXCEPT !.lamports[payer] = @ - Rent])

\* prove_message_handler without the MMR proof.
prove_message_handler_without_proof_check(w, output_root, nonce, sender, data, proof, message_hash) ==
    LET computed_hash == hash_message(nonce, sender, data) IN
    IF message_hash # computed_hash THEN Err("InvalidMessageHash", w)
    ELSE Ok([w EXCEPT !.incoming[message_hash] =
                 [ exists |-> TRUE, executed |-> FALSE, sender |-> sender,
                   message |-> data ]])

prove_message_handler(w, output_root, nonce, sender, data, proof, message_hash) ==
    LET computed_hash == hash_message(nonce, sender, data) IN
    IF message_hash # computed_hash THEN Err("InvalidMessageHash", w)
    ELSE IF mmr_verify_proof(output_root.root, message_hash, proof) # ""
    THEN Err(mmr_verify_proof(output_root.root, message_hash, proof), w)
    ELSE Ok([w EXCEPT !.incoming[message_hash] =
                 [ exists |-> TRUE, executed |-> FALSE, sender |-> sender,
                   message |-> data ]])

prove_message(w, payer, output_root, nonce, sender, data, proof, message_hash) ==
    LET accounts == ProveMessage_accounts(w, payer, output_root, message_hash)
    IN  IF ~accounts.ok THEN accounts
        ELSE LET handled == prove_message_handler(accounts.w, output_root, nonce, sender,
                                                  data, proof, message_hash)
             IN  IF handled.ok THEN handled ELSE Err(handled.err, w)

\* The remaining accounts of a relay: the mint, the vault and the recipient
\* token account of a release, and whether the accounts the invoked program
\* needs are among them.
RemainingAccounts(mint, token_vault, to, complete) ==
    [ mint |-> mint, token_vault |-> token_vault, to |-> to, complete |-> complete ]

\* finalize releasing from whichever token account is passed as the vault.
FinalizeBridgeSpl_finalize_from_any_vault(w, self, accs) ==
    IF accs.mint # self.local_token THEN Err("MintDoesNotMatchLocalToken", w)
    ELSE IF accs.to # self.to THEN Err("TokenAccountDoesNotMatchTo", w)
    ELSE transfer_checked(w, accs.mint, accs.token_vault, accs.to, self.amount)

FinalizeBridgeSpl_finalize(w, self, accs) ==
    IF accs.mint # self.local_token THEN Err("MintDoesNotMatchLocalToken", w)
    ELSE IF accs.to # self.to THEN Err("TokenAccountDoesNotMatchTo", w)
    ELSE IF accs.token_vault # token_vault_pda(accs.mint, self.remote_token)
    THEN Err("IncorrectTokenVault", w)
    ELSE transfer_checked(w, accs.mint, accs.token_vault, accs.to, self.amount)

\* invoke_signed of one instruction of the message: the invoked program acts
\* once on its accounts, or fails when its accounts were not supplied.
invoke_signed(w, message_hash, accs) ==
    IF ~accs.complete THEN Abort("DownstreamFailed", w)
    ELSE Ok([w EXCEPT !.delivered[message_hash] = @ + 1])

RECURSIVE invoke_all(_, _, _, _)
invoke_all(w, message_hash, ixs, accs) ==
    IF ixs = << >> THEN Ok(w)
    ELSE LET r == invoke_signed(w, message_hash, accs)
         IN  IF ~r.ok THEN r ELSE invoke_all(r.w, message_hash, Tail(ixs), accs)

\* relay_message_handler without the check of the executed flag.
relay_message_handler_without_replay_check(w, message_hash, accs) ==
    LET message == w.incoming[message_hash].message
        finalized == IF message.kind = "Transfer"
                     THEN FinalizeBridgeSpl_finalize(w, message.transfer, accs)
                     ELSE Ok(w)
    IN  IF ~finalized.ok THEN Err(finalized.err, w)
        ELSE LET invoked == invoke_all(finalized.w, message_hash, message.ixs, accs)
             IN  IF ~invoked.ok THEN Err(invoked.err, w)
                 ELSE Ok([invoked.w EXCEPT !.incoming[message_hash].executed = TRUE])

\* relay_message_handler refusing to run while the bridge is paused.
relay_message_handler_checking_pause(w, message_hash, accs) ==
    LET message == w.incoming[message_hash].message
        finalized == IF message.kind = "Transfer"
                     THEN FinalizeBridgeSpl_finalize(w, message.transfer, accs)
                     ELSE Ok(w)
    IN  IF w.bridge.paused THEN Err("BridgePaused", w)
        ELSE IF w.incoming[message_hash].executed THEN Err("AlreadyExecuted", w)
        ELSE IF ~finalized.ok THEN Err(finalized.err, w)
        ELSE LET invoked == invoke_all(finalized.w, message_hash, message.ixs, accs)
             IN  IF ~invoked.ok THEN Err(invoked.err, w)
                 ELSE Ok([invoked.w EXCEPT !.incoming[message_hash].executed = TRUE])

relay_message_handler(w, message_hash, accs) ==
    LET message == w.incoming[message_hash].message
        finalized == IF message.kind = "Transfer"
                     THEN FinalizeBridgeSpl_finalize(w, message.transfer, accs)
                     ELSE Ok(w)
    IN  IF w.incoming[message_hash].executed THEN Err("AlreadyExecuted", w)
        ELSE IF ~finalized.ok THEN Err(finalized.err, w)
        ELSE LET invoked == invoke_all(finalized.w, message_hash, message.ixs, accs)
             IN  IF ~invoked.ok THEN Err(invoked.err, w)
                 ELSE Ok([invoked.w EXCEPT !.incoming[message_hash].executed = TRUE])

\* `message: Account<IncomingMessage>` must be an initialized account.
RelayMessage_accounts(w, message_hash) ==
    IF ~w.incoming[message_hash].exists THEN Err("AccountNotInitialized", w) ELSE Ok(w)

relay_message(w, message_hash, accs) ==
    Guarded(RelayMessage_accounts(w, message_hash),
            relay_message_handler(w, message_hash, accs))

-----------------------------------------------------------------------------
(* The receiver and messenger of instructions/: prove_transaction and       *)
(* finalize_transaction on Message accounts                                  *)

OTHER_MESSENGER == "0xmessenger"
DEFAULT_SENDER == "0xdefault"
local_messenger_pubkey(program_id) == << program_id, "messenger" >>

MessengerPayload(nonce, sender, message) ==
    [ nonce |-> nonce, sender |-> sender, message |-> message ]
\* The Borsh bytes of a Vec<Ix>, and bytes that do not deserialize as one.
Encoded(ixs_vec) == [vec |-> ixs_vec]
MALFORMED == [bytes |-> << 255 >>]

MessengerIx(payload) == Ix(local_messenger_pubkey(PROGRAM_ID), payload)

\* The transactions Base sent to the receiver: instructions for another
\* program, a messenger payload with such instructions, a messenger payload
\* that targets the messenger, and one whose message does not deserialize.
Transaction(remote_sender, ixs) == [remote_sender |-> remote_sender, ixs |-> ixs]
TX_PLAIN == Transaction(REMOTE_SENDER, << DOWNSTREAM_IX >>)
TX_MESSENGER ==
    Transaction(OTHER_MESSENGER,
        << MessengerIx(MessengerPayload(0, REMOTE_SENDER, Encoded(<< DOWNSTREAM_IX >>))) >>)
TX_NESTED ==
    Transaction(OTHER_MESSENGER,
        << MessengerIx(MessengerPayload(1, REMOTE_SENDER,
               Encoded(<< MessengerIx(MessengerPayload(2, REMOTE_SENDER,
                                                        Encoded(<< >>))) >>))) >>)
TX_MALFORMED ==
    Transaction(OTHER_MESSENGER,
        << MessengerIx(MessengerPayload(3, REMOTE_SENDER, MALFORMED)) >>)
Transactions == {TX_PLAIN, TX_MESSENGER, TX_NESTED, TX_MALFORMED}

\* keccak256 of the canonical encoding: distinct inputs, distinct hashes
hash_ixs(remote_sender, ixs) == << remote_sender, ixs >>

TransactionHashes == { hash_ixs(t.remote_sender, t.ixs) : t \in Transactions }

\* process_proof folds the proof over the leaf; the fold of a sibling path of
\* the tree behind ROOT_A over one of its leaves is ROOT_A, any other fold is
\* some other hash.
process_proof(proof, leaf) ==
    IF proof = "valid" /\ leaf \in TransactionHashes THEN ROOT_A ELSE "0xunrelated"

verify(proof, root, leaf) == process_proof(proof, leaf) = root

NoMessage ==
    [ exists |-> FALSE, is_executed |-> FALSE, failed_message |-> FALSE,
      successful_message |-> FALSE, remote_sender |-> "", sender |-> "",
      ixs |-> << >> ]

ProveTransaction_accounts(w, payer, output_root, transaction_hash) ==
    IF transaction_hash \notin TransactionHashes THEN Err("ConstraintSeeds", w)
    ELSE IF w.messages[transaction_hash].exists THEN Err("AccountAlreadyInUse", w)
    ELSE IF output_root \notin w.roots THEN Err("AccountNotInitialized", w)
    ELSE IF w.lamports[payer] < Rent THEN Err("InsufficientFunds", w)
    ELSE Ok([w EXCEPT !.lamports[payer] = @ - Rent,
                      !.messages[transaction_hash].exists = TRUE])

prove_transaction_handler(w, output_root, transaction_hash, remote_sender, ixs, proof) ==
    LET message_hash == hash_ixs(remote_sender, ixs) IN
    IF message_hash # transaction_hash THEN Err("InvalidTransactionHash", w)
    ELSE IF ~verify(proof, output_root.root, message_hash) THEN Err("InvalidProof", w)
    ELSE Ok([w EXCEPT !.messages[transaction_hash].ixs = ixs,
                      !.messages[transaction_hash].sender = DEFAULT_SENDER,
                      !.messages[transaction_hash].remote_sender = remote_sender])

prove_transaction(w, payer, output_root, transaction_hash, remote_sender, ixs, proof) ==
    LET accounts == ProveTransaction_accounts(w, payer, output_root, transaction_hash)
    IN  IF ~accounts.ok THEN accounts
        ELSE LET handled == prove_transaction_handler(accounts.w, output_root,
                                transaction_hash, remote_sender, ixs, proof)
             IN  IF handled.ok THEN handled ELSE Err(handled.err, w)

\* solana_program::program::invoke of one instruction of another program
invoke(w, h, accs) ==
    IF ~accs.complete THEN Abort("DownstreamFailed", w)
    ELSE Ok([w EXCEPT !.delivered[h] = @ + 1])

\* handle_ixs of the messenger
RECURSIVE messenger_handle_ixs_loop(_, _, _, _)
messenger_handle_ixs_loop(w, h, ixs_vec, accs) ==
    IF ixs_vec = << >> THEN Ok(w)
    ELSE IF Head(ixs_vec).program_id = local_messenger_pubkey(PROGRAM_ID)
    THEN Err("BridgeTargetNotSupported", w)
    ELSE LET r == invoke(w, h, accs)
         IN  IF ~r.ok THEN r ELSE messenger_handle_ixs_loop(r.w, h, Tail(ixs_vec), accs)

messenger_handle_ixs(w, h, message, accs) ==
    IF "vec" \notin DOMAIN message THEN Err("BorshIoError", w)
    ELSE messenger_handle_ixs_loop(w, h, message.vec, accs)

messenger_paused == FALSE

\* relay_message of the messenger, on the Message account of hash h
messenger_relay_message(w, h, messenger_payload, accs) ==
    LET message_account == w.messages[h] IN
    IF messenger_paused THEN Err("BridgeIsPaused", w)
    ELSE IF message_account.remote_sender = OTHER_MESSENGER /\ message_account.failed_message
    THEN Err("CannotBeFailedMessage", w)
    ELSE IF message_account.remote_sender # OTHER_MESSENGER
            /\ ~message_account.failed_message
    THEN Err("CanOnlyRetryAFailedMessage", w)
    ELSE IF message_account.successful_message
    THEN Err("MessageHasAlreadyBeenRelayed", w)
    ELSE LET success == messenger_handle_ixs(w, h, messenger_payload.message, accs) IN
         IF Aborted(success) THEN success
         ELSE IF success.ok
         THEN Ok([success.w EXCEPT !.messages[h].successful_message = TRUE,
                                   !.messages[h].sender = DEFAULT_SENDER])
         ELSE Ok([success.w EXCEPT !.messages[h].failed_message = TRUE,
                                   !.messages[h].sender = DEFAULT_SENDER])

\* handle_ixs of the receiver
RECURSIVE receiver_handle_ixs(_, _, _, _)
receiver_handle_ixs(w, h, ixs, accs) ==
    IF ixs = << >> THEN Ok(w)
    ELSE LET ix == Head(ixs)
             r == IF ix.program_id = local_messenger_pubkey(PROGRAM_ID)
                  THEN messenger_relay_message(w, h, ix.data, accs)
                  ELSE invoke(w, h, accs)
         IN  IF ~r.ok THEN r ELSE receiver_handle_ixs(r.w, h, Tail(ixs), accs)

finalize_transaction_handler(w, h, accs) ==
    IF w.messages[h].is_executed THEN Err("AlreadyExecuted", w)
    ELSE LET handled == receiver_handle_ixs([w EXCEPT !.messages[h].is_executed = TRUE],
                                            h, w.messages[h].ixs, accs)
         IN  IF handled.ok THEN handled ELSE Err(handled.err, w)

FinalizeTransaction_accounts(w, h) ==
    IF ~w.messages[h].exists THEN Err("AccountNotInitialized", w) ELSE Ok(w)

finalize_transaction(w, h, accs) ==
    Guarded(FinalizeTransaction_accounts(w, h), finalize_transaction_handler(w, h, accs))

-----------------------------------------------------------------------------
(* Inputs of the instructions *)

VALID_CALL == Call("Call", "0x1", 0, << >>)
INVALID_CALL == Call("Create", "0x1", 0, << >>)
CallInputs == {VALID_CALL, INVALID_CALL}

\* One well-formed input, and the inputs that differ from it in one argument:
\* a payer that can pay the rent but not the fee, a receiver other than the
\* hardcoded one, a gas limit above the cap, an amount nobody holds, a call.
BaseInput ==
    [ payer |-> "alice", gas_fee_receiver |-> GAS_FEE_RECEIVER, gas_limit |-> 1,
      amount |-> 1, call |-> None ]
TransferInputs ==
    { BaseInput,
      [BaseInput EXCEPT !.payer = "bob"],
      [BaseInput EXCEPT !.gas_fee_receiver = "recv2"],
      [BaseInput EXCEPT !.gas_limit = MAX_GAS_LIMIT_PER_MESSAGE + 1],
      [BaseInput EXCEPT !.amount = 100],
      [BaseInput EXCEPT !.call = Some(VALID_CALL)],
      [BaseInput EXCEPT !.call = Some(INVALID_CALL)] }
CallInstructionInputs ==
    { [i EXCEPT !.call = c] : i \in { x \in TransferInputs : x.call = None /\ x.amount = 1 },
                              c \in {VALID_CALL} }
        \cup { [BaseInput EXCEPT !.call = INVALID_CALL] }

GuardianSigners == {INITIAL_GUARDIAN, "alice"}
MaxCallBufferSizes == {0, 1, 64 * 1024 + 1, 1024 * 1024}
MaxGasLimits == {0, 1, 1000000001}
GasCostScalers == {0, 2, GAS_COST_SCALER, 1000000001}
GasCostScalerDps == {0, 2, GAS_COST_SCALER_DP, 1000000001}
BufferData == { << >>, << 7 >> }

\* Oracle signer configurations: two signers with threshold two, a rotation to
\* a third signer that leaves an old address beyond signer_count, and the
\* three configurations validate refuses.
BaseOracleConfig(oracle_threshold, signer_count, oracle_signer_addrs) ==
    [ oracle_threshold |-> oracle_threshold, signer_count |-> signer_count,
      oracle_signer_addrs |-> oracle_signer_addrs ]
OracleConfigs ==
    { BaseOracleConfig(2, 2, << "s1", "s2" >>),
      BaseOracleConfig(1, 1, << "s3", "s1" >>),
      BaseOracleConfig(0, 1, << "s1" >>),
      BaseOracleConfig(1, 2, << "s1", "s1" >>),
      BaseOracleConfig(1, 3, << "s1", "s2" >>) }

\* Signature lists over the hash h: from registered signers, from one signer
\* only, from one signer twice, from addresses never registered, with one
\* signature made by another key, made over another hash, or malformed.
SignatureLists(h) ==
    { << >>,
      << Signature("s1", "s1", h, 27) >>,
      << Signature("s1", "s1", h, 27), Signature("s2", "s2", h, 28) >>,
      << Signature("s1", "s1", h, 27), Signature("s1", "s1", h, 27) >>,
      << Signature("x1", "x1", h, 27), Signature("x2", "x2", h, 27) >>,
      << Signature("s3", "s3", h, 27), Signature("x1", "x1", h, 27) >>,
      << Signature("s1", "s1", h, 27), Signature("s2", "x1", h, 27) >>,
      << Signature("s1", "s1", h, 27), Signature("s2", "s2", h, 27),
         Signature("s3", "x1", h, 27) >>,
      << Signature("s1", "s1", << "stale", 0 >>, 27),
         Signature("s2", "s2", << "stale", 0 >>, 27) >>,
      << Signature("s1", "s1", h, 27), Signature("s2", "s2", h, 31) >> }

\* Values for the EIP-1559 setters: one the setter refuses and values that differ
\* from the defaults.
MinimumBaseFees == {0, 3}
WindowDurations == {0, 2}
GasTargets == {0, 1}
AdjustmentDenominators == {0, 1, 3}

Roots == {ROOT_A, ROOT_B}
BlockNumbers == {150, 300, 450, 600}
BlockIntervals == {0, 150, 600}
OutputRoot(block, root) == [block |-> block, root |-> root]

RelayAccounts ==
    { RemainingAccounts(SPL_MINT, TOKEN_VAULT, "bob", TRUE),
      RemainingAccounts(SPL_MINT, TOKEN_VAULT, "bob", FALSE),
      RemainingAccounts(FOREIGN_MINT, TOKEN_VAULT, "bob", TRUE),
      RemainingAccounts(SPL_MINT, TOKEN_VAULT, "alice", TRUE),
      RemainingAccounts(SPL_MINT, "alice", "bob", TRUE) }

OutboundOps ==
    { "bridge_call", "bridge_sol", "bridge_spl", "bridge_wrapped_token", "wrap_token",
      "bridge_call_buffered", "bridge_sol_with_buffered_call",
      "bridge_spl_with_buffered_call", "bridge_wrapped_token_with_buffered_call",
      "buffered_bridge_sol_with_buffered_call" }

-----------------------------------------------------------------------------
(* Initial state and actions *)

-----------------------------------------------------------------------------
(* The base_relayer program: one Cfg account, written whole by initialize and
   set_config, and charged by pay_for_relay. *)

Cfg_new(eip1559, gas_cost_scaler_dp) ==
    [ guardian |-> INITIAL_GUARDIAN,
      eip1559 |-> eip1559,
      gas_config |-> [ max_gas_limit_per_message |-> MAX_GAS_LIMIT_PER_MESSAGE,
                       gas_cost_scaler |-> GAS_COST_SCALER,
                       gas_cost_scaler_dp |-> gas_cost_scaler_dp,
                       gas_fee_receiver |-> GAS_FEE_RECEIVER ] ]

NoRelayer ==
    [ initialized |-> FALSE,
      cfg |-> Cfg_new(Eip1559_new(0), GAS_COST_SCALER_DP),
      message_to_relay |-> << >> ]

\* Initialize of base_relayer: `init` creates the Cfg PDA once, paid by payer,
\* and the handler stores the guardian, the fee engine and the gas
\* configuration of its argument.
relayer_initialize_handler(w, payer, cfg) ==
    IF w.relayer.initialized THEN Err("AccountAlreadyInUse", w)
    ELSE IF w.lamports[payer] < Rent THEN Err("InsufficientFunds", w)
    ELSE Ok([w EXCEPT !.lamports[payer] = @ - Rent,
                      !.relayer.initialized = TRUE,
                      !.relayer.cfg = cfg])

SetConfig_accounts(w, guardian) ==
    IF ~w.relayer.initialized THEN Err("AccountNotInitialized", w)
    ELSE IF guardian # w.relayer.cfg.guardian THEN Err("UnauthorizedConfigUpdate", w)
    ELSE Ok(w)

set_config_handler(w, cfg) == Ok([w EXCEPT !.relayer.cfg = cfg])

\* The divisions one charge evaluates, in the order of the code:
\* expired_windows_count divides by window_duration_seconds, calc_base_fee by
\* target and denominator unless gas_used = target, the ratio of the empty
\* windows by denominator, the cost by gas_cost_scaler_dp.  An integer
\* division by zero panics.
Cfg_divides_by_zero(cfg, current_timestamp) ==
    LET e == cfg.eip1559 IN
    \/ e.window_duration_seconds = 0
    \/ /\ e.window_duration_seconds > 0
       /\ expired_windows_count(e, current_timestamp) > 0
       /\ \/ /\ e.current_window_gas_used # e.target
             /\ (e.target = 0 \/ e.denominator = 0)
          \/ /\ expired_windows_count(e, current_timestamp) > 1
             /\ e.denominator = 0
    \/ cfg.gas_config.gas_cost_scaler_dp = 0

Cfg_check_gas_limit(w, gas_limit) ==
    IF ~(gas_limit <= w.relayer.cfg.gas_config.max_gas_limit_per_message)
    THEN Err("GasLimitExceeded", w)
    ELSE Ok(w)

Cfg_pay_for_gas(w, t, payer, gas_fee_receiver, gas_limit) ==
    IF Cfg_divides_by_zero(w.relayer.cfg, t) THEN Abort("DivisionByZero", w)
    ELSE LET refreshed == refresh_base_fee(w.relayer.cfg.eip1559, t)
             base_fee == refreshed.current_base_fee
             used == add_gas_usage(refreshed, gas_limit)
             gas_cost == (gas_limit * base_fee * w.relayer.cfg.gas_config.gas_cost_scaler)
                             \div w.relayer.cfg.gas_config.gas_cost_scaler_dp
         IN  transfer([w EXCEPT !.relayer.cfg.eip1559 = used],
                      payer, gas_fee_receiver, gas_cost)

Cfg_check_and_pay_for_gas(w, t, payer, gas_fee_receiver, gas_limit) ==
    LET checked == Cfg_check_gas_limit(w, gas_limit) IN
    IF ~checked.ok THEN checked
    ELSE Cfg_pay_for_gas(w, t, payer, gas_fee_receiver, gas_limit)

\* The accounts of pay_for_relay: the receiver is the configured one and the
\* MessageToRelay account is created, paid by payer.
PayForRelay_accounts(w, payer, gas_fee_receiver) ==
    IF ~w.relayer.initialized THEN Err("AccountNotInitialized", w)
    ELSE IF gas_fee_receiver # w.relayer.cfg.gas_config.gas_fee_receiver
    THEN Err("IncorrectGasFeeReceiver", w)
    ELSE IF w.lamports[payer] < Rent THEN Err("InsufficientFunds", w)
    ELSE Ok([w EXCEPT !.lamports[payer] = @ - Rent])

pay_for_relay_handler(w, t, payer, gas_fee_receiver, outgoing_message, gas_limit) ==
    LET paid == Cfg_check_and_pay_for_gas(w, t, payer, gas_fee_receiver, gas_limit) IN
    IF ~paid.ok THEN paid
    ELSE Ok([paid.w EXCEPT !.relayer.message_to_relay =
                 Append(@, [outgoing_message |-> outgoing_message,
                            gas_limit |-> gas_limit])])

pay_for_relay(w, t, payer, gas_fee_receiver, outgoing_message, gas_limit) ==
    LET accounts == PayForRelay_accounts(w, payer, gas_fee_receiver) IN
    IF ~accounts.ok THEN accounts
    ELSE pay_for_relay_handler(accounts.w, t, payer, gas_fee_receiver,
                               outgoing_message, gas_limit)


InitAccounts ==
    /\ initialized = FALSE
    /\ bridge = Bridge_default(0)
    /\ now = 0
    /\ lamports = [a \in SystemAccounts |->
                      IF a = "alice" THEN 8 ELSE IF a = "bob" THEN 1
                      ELSE IF a = TRUSTED_ORACLE THEN 2 ELSE 0]
    /\ tokens = [ bal |-> [m \in Mints |-> [h \in TokenHolders |->
                              IF h = "alice" /\ m # WRAPPED_MINT THEN 1
                              ELSE IF h = "bob" /\ m = SPL_MINT THEN 1 ELSE 0]],
                  vaults |-> {},
                  wrapped_exists |-> FALSE ]
    /\ outgoing = << >>
    /\ buffers = [b \in BufferIds |-> NoBuffer]
    /\ oracle_signers = [threshold |-> 0, signer_count |-> 0, signers |-> << >>]
    /\ roots = {}
    /\ incoming = [h \in MessageHashes |-> NoIncomingMessage]
    /\ messages = [h \in TransactionHashes |-> NoMessage]
    /\ delivered = [h \in MessageHashes \cup TransactionHashes |-> 0]
    /\ relayer = NoRelayer
    /\ last = [op |-> "none", signer |-> "", ok |-> TRUE, err |-> ""]

Init == InitAccounts /\ pow = FixedPow(0, 0)

\* fixed_pow on its own: every base below SCALE and some at or above it.
FixedPowBases == (0 .. SCALE - 1) \cup {SCALE, SCALE + 1, 2 * SCALE, 4 * SCALE}

InitFixedPow == InitAccounts /\ pow \in { FixedPow(base, 0) : base \in FixedPowBases }

\* The next exponent of the same base.
Do_fixed_pow ==
    /\ pow.exp < MaxExponent
    /\ ~pow.panicked
    /\ pow' = FixedPow(pow.base, pow.exp + 1)
    /\ UNCHANGED << initialized, bridge, now, lamports, tokens, outgoing, buffers,
                    oracle_signers, roots, incoming, messages, delivered, relayer,
                    last >>

SpecFixedPow == InitFixedPow /\ [][Do_fixed_pow]_vars

\* An instruction of the initialized program: its result is committed or rolled
\* back.  `signer` is the key that authorizes it (the guardian, the owner of a
\* call buffer, the payer of a registration); "" when no claim looks at it.
SignedInstruction(op, signer, r) ==
    /\ initialized
    /\ Commit(r, [op |-> op, signer |-> signer])
    /\ UNCHANGED << initialized, now >>

Instruction(op, r) == SignedInstruction(op, "", r)

\* Outbound instructions are explored until MaxNonce messages exist.
CanSend == Len(outgoing) < MaxNonce

Do_initialize ==
    /\ ~initialized
    /\ initialized' = TRUE
    /\ Commit(initialize_handler(World, now), [op |-> "initialize", signer |-> ""])
    /\ UNCHANGED now

Tick ==
    /\ initialized
    /\ now < MaxTime
    /\ now' = now + 1
    /\ UNCHANGED << initialized, bridge, lamports, tokens, outgoing, buffers,
                    oracle_signers, roots, incoming, messages, delivered, relayer,
                    pow, last >>

\* An instruction of base_relayer: it needs no Bridge account.
RelayerInstruction(op, signer, r) ==
    /\ Commit(r, [op |-> op, signer |-> signer])
    /\ UNCHANGED << initialized, now >>

\* The Cfg arguments explored: each divisor zero or positive.
RelayerEip1559s ==
    { [Eip1559_new(now) EXCEPT !.target = t, !.denominator = d,
                              !.window_duration_seconds = wd] :
        t \in {0, 2}, d \in {0, 2}, wd \in {0, 1} }
RelayerGasCostScalerDps == {0, GAS_COST_SCALER_DP}
RelayerGasLimits == {0, 1, 3}

Do_relayer_initialize ==
    \E payer \in Users, e \in RelayerEip1559s, dp \in RelayerGasCostScalerDps :
       RelayerInstruction("relayer_initialize", payer,
           relayer_initialize_handler(World, payer, Cfg_new(e, dp)))

Do_set_config ==
    \E g \in GuardianSigners, e \in RelayerEip1559s, dp \in RelayerGasCostScalerDps :
       RelayerInstruction("set_config", g,
           Guarded(SetConfig_accounts(World, g),
                   set_config_handler(World, Cfg_new(e, dp))))

Do_pay_for_relay ==
    /\ Len(relayer.message_to_relay) < MaxNonce
    /\ \E payer \in Users, receiver \in Receivers, gas_limit \in RelayerGasLimits :
          RelayerInstruction("pay_for_relay", payer,
              pay_for_relay(World, now, payer, receiver, "outgoing_1", gas_limit))


Do_bridge_call ==
    /\ CanSend
    /\ \E i \in CallInstructionInputs :
          Instruction("bridge_call",
              bridge_call(World, now, i.payer, i.payer, i.gas_fee_receiver, i.gas_limit,
                          i.call))

Do_bridge_sol ==
    /\ CanSend
    /\ \E i \in TransferInputs :
          Instruction("bridge_sol",
              bridge_sol(World, now, i.payer, i.payer, i.gas_fee_receiver, i.gas_limit,
                         "0x1", REMOTE_TOKEN, i.amount, i.call))

Do_bridge_spl ==
    /\ CanSend
    /\ \E i \in TransferInputs, m \in Mints :
          Instruction("bridge_spl",
              bridge_spl(World, now, i.payer, i.payer, i.gas_fee_receiver, m, i.gas_limit,
                         "0x1", REMOTE_TOKEN, i.amount, i.call))

Do_bridge_wrapped_token ==
    /\ CanSend
    /\ \E i \in TransferInputs, m \in Mints :
          Instruction("bridge_wrapped_token",
              bridge_wrapped_token(World, now, i.payer, i.payer, i.gas_fee_receiver, m,
                                   i.gas_limit, "0x1", i.amount, i.call))

Do_wrap_token ==
    /\ CanSend
    /\ \E i \in CallInstructionInputs :
          Instruction("wrap_token",
              wrap_token(World, now, i.payer, i.gas_fee_receiver, i.gas_limit))

Do_initialize_call_buffer ==
    \E payer \in Users, b \in BufferIds, cap \in {MaxDataLen, MAX_CALL_BUFFER_SIZE + 1},
       c \in CallInputs, d \in BufferData :
       SignedInstruction("initialize_call_buffer", payer,
           initialize_call_buffer(World, payer, b, cap, c.ty, c.to, c.value, d))

Do_append_to_call_buffer ==
    \E owner \in Users, b \in BufferIds :
       SignedInstruction("append_to_call_buffer", owner,
           append_to_call_buffer(World, owner, b, << 7 >>))

Do_close_call_buffer ==
    \E owner \in Users, b \in BufferIds :
       SignedInstruction("close_call_buffer", owner, close_call_buffer(World, owner, b))

Do_bridge_call_buffered ==
    /\ CanSend
    /\ \E i \in CallInstructionInputs, owner \in Users, b \in BufferIds :
          SignedInstruction("bridge_call_buffered", owner,
              bridge_call_buffered(World, now, i.payer, i.payer, i.gas_fee_receiver, owner,
                                   b, i.gas_limit))

Do_bridge_sol_with_buffered_call ==
    /\ CanSend
    /\ \E i \in TransferInputs, owner \in Users, b \in BufferIds :
          SignedInstruction("bridge_sol_with_buffered_call", owner,
              bridge_sol_with_buffered_call(World, now, i.payer, i.payer,
                  i.gas_fee_receiver, owner, b, i.gas_limit, "0x1", REMOTE_TOKEN, i.amount))

Do_buffered_bridge_sol_with_buffered_call ==
    /\ CanSend
    /\ \E i \in TransferInputs, owner \in Users, b \in BufferIds :
          SignedInstruction("buffered_bridge_sol_with_buffered_call", owner,
              buffered_bridge_sol_with_buffered_call(World, now, i.payer, i.payer,
                  i.gas_fee_receiver, owner, b, i.gas_limit, "0x1", REMOTE_TOKEN, i.amount))

Do_bridge_spl_with_buffered_call ==
    /\ CanSend
    /\ \E i \in TransferInputs, owner \in Users, b \in BufferIds, m \in Mints :
          SignedInstruction("bridge_spl_with_buffered_call", owner,
              bridge_spl_with_buffered_call(World, now, i.payer, i.payer,
                  i.gas_fee_receiver, m, owner, b, i.gas_limit, "0x1", REMOTE_TOKEN,
                  i.amount))

Do_bridge_wrapped_token_with_buffered_call ==
    /\ CanSend
    /\ \E i \in TransferInputs, owner \in Users, b \in BufferIds, m \in Mints :
          SignedInstruction("bridge_wrapped_token_with_buffered_call", owner,
              bridge_wrapped_token_with_buffered_call(World, now, i.payer, i.payer,
                  i.gas_fee_receiver, m, owner, b, i.gas_limit, "0x1", i.amount))

Do_set_gas_fee_receiver ==
    \E g \in GuardianSigners, r \in Receivers :
       SignedInstruction("set_gas_fee_receiver", g,
           Guarded(SetBridgeConfig_accounts(World, g), set_gas_fee_receiver_handler(World, r)))

Do_set_pause_status ==
    \E g \in GuardianSigners, p \in BOOLEAN :
       SignedInstruction("set_pause_status", g,
           Guarded(SetBridgeConfig_accounts(World, g), set_pause_status_handler(World, p)))

Do_pause_switch ==
    \E g \in GuardianSigners :
       SignedInstruction("pause_switch", g, pause_switch_handler(World, g))

Do_close_outgoing_message ==
    \E p \in Users, k \in 1..MaxNonce :
       Instruction("close_outgoing_message", close_outgoing_message(World, p, k))

Do_set_oracle_signers ==
    \E g \in GuardianSigners, cfg \in OracleConfigs :
       SignedInstruction("set_oracle_signers", g, set_oracle_signers(World, g, cfg))

Do_set_block_interval_requirement ==
    \E g \in GuardianSigners, n \in BlockIntervals :
       SignedInstruction("set_block_interval_requirement", g,
           Guarded(SetBridgeConfig_accounts(World, g),
                   set_block_interval_requirement_handler(World, n)))

Do_register_output_root ==
    \E payer \in {TRUSTED_ORACLE, "alice"}, root \in Roots, b \in BlockNumbers :
       \E sigs \in SignatureLists(create_ism_message_hash(root, b)) :
          SignedInstruction("register_output_root", payer,
              register_output_root(World, payer, root, b, sigs))

Do_prove_message ==
    \E r \in roots \cup {OutputRoot(300, ROOT_A)}, m \in Messages,
       claimed \in MessageHashes, proof \in {"valid", "garbage"} :
       Instruction("prove_message",
           prove_message(World, "alice", r, m.nonce, m.sender, m.data, proof, claimed))

Do_relay_message ==
    \E h \in MessageHashes, accs \in RelayAccounts :
       Instruction("relay_message", relay_message(World, h, accs))

Do_prove_transaction ==
    \E r \in roots \cup {OutputRoot(300, ROOT_A)}, t \in Transactions,
       claimed \in TransactionHashes, proof \in {"valid", "garbage"} :
       Instruction("prove_transaction",
           prove_transaction(World, "alice", r, claimed, t.remote_sender, t.ixs, proof))

Do_finalize_transaction ==
    \E h \in TransactionHashes, accs \in RelayAccounts :
       Instruction("finalize_transaction", finalize_transaction(World, h, accs))

Do_transfer_guardian ==
    \E g \in GuardianSigners, new_guardian \in GuardianSigners :
       SignedInstruction("transfer_guardian", g,
           Guarded(TransferGuardian_accounts(World, g), transfer_guardian(World, new_guardian)))

Do_set_minimum_base_fee ==
    \E g \in GuardianSigners, new_fee \in MinimumBaseFees :
       SignedInstruction("set_minimum_base_fee", g,
           Guarded(SetBridgeConfig_accounts(World, g),
                   set_minimum_base_fee_handler(World, new_fee)))

Do_set_window_duration ==
    \E g \in GuardianSigners, new_duration \in WindowDurations :
       SignedInstruction("set_window_duration", g,
           Guarded(SetBridgeConfig_accounts(World, g),
                   set_window_duration_handler(World, new_duration)))

Do_set_gas_target ==
    \E g \in GuardianSigners, new_target \in GasTargets :
       SignedInstruction("set_gas_target", g,
           Guarded(SetBridgeConfig_accounts(World, g),
                   set_gas_target_handler(World, new_target)))

Do_set_adjustment_denominator ==
    \E g \in GuardianSigners, new_denominator \in AdjustmentDenominators :
       SignedInstruction("set_adjustment_denominator", g,
           Guarded(SetBridgeConfig_accounts(World, g),
                   set_adjustment_denominator_handler(World, new_denominator)))

Do_set_gas_cost_scaler ==
    \E g \in GuardianSigners, new_scaler \in GasCostScalers :
       SignedInstruction("set_gas_cost_scaler", g,
           Guarded(SetBridgeConfig_accounts(World, g),
                   set_gas_cost_scaler_handler(World, new_scaler)))

Do_set_gas_cost_scaler_dp ==
    \E g \in GuardianSigners, new_dp \in GasCostScalerDps :
       SignedInstruction("set_gas_cost_scaler_dp", g,
           Guarded(SetBridgeConfig_accounts(World, g),
                   set_gas_cost_scaler_dp_handler(World, new_dp)))

Do_set_max_gas_limit_per_message ==
    \E g \in GuardianSigners, new_limit \in MaxGasLimits :
       SignedInstruction("set_max_gas_limit_per_message", g,
           Guarded(SetBridgeConfig_accounts(World, g),
                   set_max_gas_limit_per_message_handler(World, new_limit)))

Do_set_max_call_buffer_size ==
    \E g \in GuardianSigners, new_size \in MaxCallBufferSizes :
       SignedInstruction("set_max_call_buffer_size", g,
           Guarded(SetBridgeConfig_accounts(World, g),
                   set_max_call_buffer_size_handler(World, new_size)))

Next ==
    \/ Do_initialize
    \/ Tick
    \/ Do_bridge_call
    \/ Do_bridge_sol
    \/ Do_bridge_spl
    \/ Do_bridge_wrapped_token
    \/ Do_wrap_token
    \/ Do_set_gas_fee_receiver
    \/ Do_set_pause_status
    \/ Do_pause_switch
    \/ Do_close_outgoing_message

Spec == Init /\ [][Next]_vars

\* The inline outbound instructions with the pause flag only.
NextOutbound ==
    \/ Do_initialize
    \/ Tick
    \/ Do_bridge_call
    \/ Do_bridge_sol
    \/ Do_bridge_spl
    \/ Do_bridge_wrapped_token
    \/ Do_wrap_token
    \/ Do_set_pause_status

SpecOutbound == Init /\ [][NextOutbound]_vars

\* The call buffers and the outbound instructions that consume them.
NextBuffered ==
    \/ Do_initialize
    \/ Do_initialize_call_buffer
    \/ Do_append_to_call_buffer
    \/ Do_close_call_buffer
    \/ Do_bridge_call_buffered
    \/ Do_bridge_sol_with_buffered_call
    \/ Do_buffered_bridge_sol_with_buffered_call
    \/ Do_bridge_spl_with_buffered_call
    \/ Do_bridge_wrapped_token_with_buffered_call
    \/ Do_set_gas_fee_receiver

SpecBuffered == Init /\ [][NextBuffered]_vars

\* Output root registration under the guardian's configuration.
NextRoots ==
    \/ Do_initialize
    \/ Do_set_oracle_signers
    \/ Do_set_block_interval_requirement
    \/ Do_register_output_root

SpecRoots == Init /\ [][NextRoots]_vars

\* The inbound pipeline: roots, proofs and relays, with the vault funded by
\* outbound SPL transfers.
NextInbound ==
    \/ Do_initialize
    \/ Do_bridge_spl
    \/ Do_register_output_root
    \/ Do_prove_message
    \/ Do_relay_message

SpecInbound == Init /\ [][NextInbound]_vars

\* The receiver of instructions/: transactions proven against a root and
\* finalized through the messenger.
NextReceiver ==
    \/ Do_initialize
    \/ Do_register_output_root
    \/ Do_prove_transaction
    \/ Do_finalize_transaction

SpecReceiver == Init /\ [][NextReceiver]_vars

\* The instructions of the guardian.
NextGuardian ==
    \/ Do_initialize
    \/ Do_set_gas_fee_receiver
    \/ Do_set_pause_status
    \/ Do_pause_switch
    \/ Do_set_oracle_signers
    \/ Do_set_block_interval_requirement
    \/ Do_transfer_guardian
    \/ Do_set_minimum_base_fee
    \/ Do_set_window_duration
    \/ Do_set_gas_target
    \/ Do_set_adjustment_denominator

SpecGuardian == Init /\ [][NextGuardian]_vars

\* The inbound instructions with the pause flag.
NextPausedInbound ==
    \/ Do_initialize
    \/ Do_set_pause_status
    \/ Do_bridge_spl
    \/ Do_register_output_root
    \/ Do_prove_message
    \/ Do_relay_message

SpecPausedInbound == Init /\ [][NextPausedInbound]_vars

\* The call buffers with the buffered call and the buffered SOL transfer.
NextOwner ==
    \/ Do_initialize
    \/ Do_initialize_call_buffer
    \/ Do_append_to_call_buffer
    \/ Do_close_call_buffer
    \/ Do_bridge_call_buffered
    \/ Do_bridge_sol_with_buffered_call

SpecOwner == Init /\ [][NextOwner]_vars

\* The fee of a call under the guardian's scaler settings.
NextGasCost ==
    \/ Do_initialize
    \/ Tick
    \/ Do_set_gas_cost_scaler
    \/ Do_set_gas_cost_scaler_dp
    \/ Do_bridge_call

SpecGasCost == Init /\ [][NextGasCost]_vars

\* The guardian's parameter setters.
NextSetters ==
    \/ Do_initialize
    \/ Do_set_minimum_base_fee
    \/ Do_set_window_duration
    \/ Do_set_gas_target
    \/ Do_set_adjustment_denominator
    \/ Do_set_max_gas_limit_per_message
    \/ Do_set_gas_cost_scaler
    \/ Do_set_gas_cost_scaler_dp
    \/ Do_set_block_interval_requirement
    \/ Do_set_max_call_buffer_size

SpecSetters == Init /\ [][NextSetters]_vars

\* The cap on the gas limit and the inline call that is priced under it.
NextGasLimit ==
    \/ Do_initialize
    \/ Tick
    \/ Do_set_max_gas_limit_per_message
    \/ Do_bridge_call

SpecGasLimit == Init /\ [][NextGasLimit]_vars

\* A successful close_outgoing_message on the k-th message account.
Reclaim(k) ==
    \E p \in Users :
       /\ close_outgoing_message(World, p, k).ok
       /\ Instruction("close_outgoing_message", close_outgoing_message(World, p, k))

\* Outbound messages and their reclamation.  Whoever paid for a message goes on
\* trying to close it: a close that can succeed is eventually made.
NextReclaim ==
    \/ Do_initialize
    \/ Tick
    \/ Do_bridge_call
    \/ Do_bridge_sol
    \/ Do_close_outgoing_message

SpecReclaim ==
    Init /\ [][NextReclaim]_vars /\ \A k \in 1..MaxNonce : WF_vars(Reclaim(k))

\* The fee configuration of base_relayer: its whole-account writes, its
\* charge, and the clock of the cluster (which the model starts with the
\* bridge's initialize).
NextRelayer ==
    \/ Do_initialize
    \/ Tick
    \/ Do_relayer_initialize
    \/ Do_set_config
    \/ Do_pay_for_relay

SpecRelayer == Init /\ [][NextRelayer]_vars

\* The fee engine under the guardian's target and denominator, driven by the
\* clock and the inline call.
NextFee ==
    \/ Do_initialize
    \/ Tick
    \/ Do_set_gas_target
    \/ Do_set_adjustment_denominator
    \/ Do_bridge_call

SpecFee == Init /\ [][NextFee]_vars

\* The configured size limit, the call buffers and the inline call.
NextLimits ==
    \/ Do_initialize
    \/ Do_set_max_call_buffer_size
    \/ Do_initialize_call_buffer
    \/ Do_append_to_call_buffer
    \/ Do_close_call_buffer
    \/ Do_bridge_call

SpecLimits == Init /\ [][NextLimits]_vars

-----------------------------------------------------------------------------
(* Properties *)

\* C1: bridge.nonce is 0 after initialize and every successful outbound
\* operation stores the nonce the bridge had before it and adds one to it, so
\* the k-th message created has nonce k-1 and the bridge's nonce is the number
\* of messages created.
C1_NonceSequence ==
    /\ bridge.nonce = Len(outgoing)
    /\ \A k \in 1..Len(outgoing) : outgoing[k].nonce = k - 1

\* C2: at most one relay_message on an IncomingMessage succeeds.  A relay of an
\* executed message fails with AlreadyExecuted whatever accounts it is given,
\* the instructions of a message act at most once and its tokens are released
\* at most once, the executed flag is never cleared, and it is set only by a
\* relay_message that succeeded.
C2_ExecutedTransfers ==
    { h \in MessageHashes : incoming[h].executed /\ incoming[h].message.kind = "Transfer" }

C2_AtMostOnce ==
    /\ [](\A h \in MessageHashes :
            /\ delivered[h] <= Len(h[3].ixs)
            /\ incoming[h].executed =>
                  \A accs \in RelayAccounts :
                     LET r == relay_message(World, h, accs)
                     IN  ~r.ok /\ r.err = "AlreadyExecuted")
    /\ [](tokens.bal[SPL_MINT]["bob"] = 1 + Cardinality(C2_ExecutedTransfers))
    /\ [][\A h \in MessageHashes :
            /\ incoming[h].executed => incoming'[h].executed
            /\ (~incoming[h].executed /\ incoming'[h].executed)
                  => (last'.op = "relay_message" /\ last'.ok)]_vars

\* A second relay of an executed message was attempted and refused.
C2_Witness ==
    /\ last.op = "relay_message" /\ last.err = "AlreadyExecuted"
    /\ \E h \in MessageHashes : incoming[h].executed /\ delivered[h] = 1

\* C3: a registration by the trusted oracle for a block on the lattice is
\* accepted if and only if at least OracleSigners.threshold distinct addresses
\* of the active signer set produced valid signatures over the attestation of
\* the root and the block.
C3_Approvals(signatures, message_hash) ==
    Cardinality({ a \in { signatures[i].addr : i \in 1..Len(signatures) } :
        /\ OracleSigners_contains(oracle_signers, a)
        /\ \E i \in 1..Len(signatures) :
              /\ signatures[i].addr = a
              /\ signatures[i].v - 27 \in 0..3
              /\ secp256k1_recover(message_hash, signatures[i]) = a })

C3_OnLattice(b) ==
    /\ b > bridge.base_block_number
    /\ b % bridge.protocol_config.block_interval_requirement = 0
    /\ b % REGISTER_BLOCK_INTERVAL = 0
    /\ ~OutputRootExists(World, b)
    /\ lamports[TRUSTED_ORACLE] >= Rent

C3_ThresholdAttestation ==
    (initialized /\ oracle_signers.threshold > 0) =>
        \A root \in Roots, b \in { x \in BlockNumbers : C3_OnLattice(x) } :
            \A sigs \in SignatureLists(create_ism_message_hash(root, b)) :
                register_output_root(World, TRUSTED_ORACLE, root, b, sigs).ok
                    <=> (C3_Approvals(sigs, create_ism_message_hash(root, b))
                            >= oracle_signers.threshold)

\* C4: after a refresh of the base fee the stored fee is at least the
\* configured minimum, whatever the number of windows that expired.
C4_FeeFloor == bridge.eip1559.current_base_fee >= bridge.eip1559.minimum_base_fee

\* C5: an accepted register_output_root has a block number above the bridge's
\* base_block_number and divisible by the configured block interval
\* requirement, and makes it the new base_block_number.
C5_BlockLattice ==
    [][(last'.op = "register_output_root" /\ last'.ok) =>
          /\ bridge'.base_block_number > bridge.base_block_number
          /\ bridge'.base_block_number % bridge.protocol_config.block_interval_requirement = 0
          /\ \E r \in roots' \ roots : r.block = bridge'.base_block_number]_vars

\* C6: while the bridge is paused no outbound instruction succeeds.
C6_PausedBlocksOutbound ==
    [][(bridge.paused /\ last'.op \in OutboundOps /\ now' = now) => ~last'.ok]_vars

\* C7: an outbound operation is all or nothing.  One that failed at any step
\* left the bridge, the balances, the messages and the buffers as they were;
\* one that succeeded created its message with the bridge's nonce, advanced the
\* nonce, recorded the gas, paid the fee to the receiver and took custody of
\* the amount its message states.
C7_Custody(op, m) ==
    CASE op = "bridge_sol" ->
            lamports'[SOL_VAULT] = lamports[SOL_VAULT] + m.message.transfer.amount
      [] op = "bridge_spl" ->
            LET mint == m.message.transfer.local_token IN
            /\ tokens'.bal[mint][TOKEN_VAULT]
                  = tokens.bal[mint][TOKEN_VAULT] + m.message.transfer.amount
            /\ tokens'.bal[mint][m.sender]
                  = tokens.bal[mint][m.sender] - m.message.transfer.amount
      [] op = "bridge_wrapped_token" ->
            LET mint == m.message.transfer.local_token IN
            tokens'.bal[mint][m.sender]
                  = tokens.bal[mint][m.sender] - m.message.transfer.amount
      [] OTHER -> TRUE

C7_Committed(op) ==
    LET m == outgoing'[Len(outgoing')]
        gas_cost == (m.gas_limit * bridge'.eip1559.current_base_fee
                        * bridge.gas_cost_config.gas_cost_scaler)
                        \div bridge.gas_cost_config.gas_cost_scaler_dp
    IN  /\ Len(outgoing') = Len(outgoing) + 1
        /\ m.nonce = bridge.nonce
        /\ bridge'.nonce = bridge.nonce + 1
        /\ bridge'.eip1559.current_window_gas_used >= m.gas_limit
        /\ lamports'[GAS_FEE_RECEIVER] = lamports[GAS_FEE_RECEIVER] + gas_cost
        /\ lamports'[m.original_payer] <= lamports[m.original_payer] - Rent - gas_cost
        /\ C7_Custody(op, m)

C7_AllOrNothing ==
    [][(last'.op \in OutboundOps /\ now' = now) =>
          IF last'.ok THEN C7_Committed(last'.op)
          ELSE UNCHANGED << bridge, lamports, tokens, outgoing, buffers >>]_vars

\* bridge_spl locked the tokens of a payer who could then not pay the fee, and
\* the tokens are where they were.
C7_Witness ==
    /\ last.op = "bridge_spl" /\ ~last.ok /\ last.err = "InsufficientFunds"
    /\ SPL_MINT \in tokens.vaults
    /\ tokens.bal[SPL_MINT]["bob"] = 1
    /\ lamports["bob"] = 1

\* C8: a message is recorded as executed only when its transfer and every one
\* of its instructions succeeded; a relay that failed leaves it unexecuted.
C8_ExecutedMeansDelivered ==
    /\ \A h \in MessageHashes :
          incoming[h].executed => delivered[h] = Len(incoming[h].message.ixs)
    /\ \A h \in TransactionHashes :
          messages[h].is_executed => ~messages[h].failed_message

\* C9: no OutgoingMessage is closed before Base acknowledged its nonce.  No
\* instruction of the program records an acknowledgement, so none is closed.
C9_AcknowledgedNonces == {}

C9_NoCloseBeforeAcknowledgement ==
    \A k \in 1..Len(outgoing) :
        outgoing[k].closed => outgoing[k].nonce \in C9_AcknowledgedNonces

\* C10: a successful outbound operation pays the configured gas fee receiver
\* and no other receiver.
C10_PaysConfiguredReceiver ==
    [][(last'.op \in OutboundOps /\ last'.ok /\ now' = now) =>
          \A r \in Receivers \ {bridge.gas_cost_config.gas_fee_receiver} :
              lamports'[r] = lamports[r]]_vars


\* C11: the configuration of the bridge, the pause flag, the guardian and the
\* oracle signer set change only in a guardian instruction signed by the key
\* that bridge.guardian holds before the instruction; the same instructions
\* signed by another key fail, and signed by the guardian they succeed unless
\* the new value is outside the bounds of its field.
C11_GuardianOps ==
    { "set_gas_fee_receiver", "set_pause_status", "pause_switch", "set_oracle_signers",
      "set_block_interval_requirement", "transfer_guardian", "set_minimum_base_fee",
      "set_window_duration", "set_gas_target", "set_adjustment_denominator" }

C11_Config(b) ==
    << b.eip1559.target, b.eip1559.denominator, b.eip1559.window_duration_seconds,
       b.eip1559.minimum_base_fee, b.gas_cost_config, b.gas_config, b.protocol_config,
       b.paused, b.guardian >>

C11_BoundErrors ==
    { "BaseFee", "WindowDuration", "GasTarget", "AdjustmentDenominator", "BlockInterval",
      "InvalidThreshold", "TooManySigners", "DuplicateSigner" }

C12_DuplicateSignerCountsOnce ==
    (initialized /\ oracle_signers.threshold = 2
        /\ OracleSigners_contains(oracle_signers, "s1")) =>
        \A root \in Roots, b \in BlockNumbers :
            LET message_hash == create_ism_message_hash(root, b)
                twice == << Signature("s1", "s1", message_hash, 27),
                            Signature("s1", "s1", message_hash, 27) >>
            IN  ~register_output_root(World, TRUSTED_ORACLE, root, b, twice).ok

\* The call data an outgoing message carries: that of its call, or of the
\* optional call of its transfer.
C13_call_data(m) ==
    IF m.message.kind = "Call" THEN m.message.call.data
    ELSE IF m.message.transfer.call = None THEN << >>
    ELSE m.message.transfer.call[1].data

\* C13: in every reachable state the data of every call buffer, and the call
\* data of every persisted outgoing message, is no longer than the configured
\* bridge.limits_config.max_call_buffer_size.
C13_DataWithinConfiguredLimit ==
    initialized =>
        /\ \A b \in BufferIds :
              buffers[b].exists =>
                  Len(buffers[b].data) <= bridge.limits_config.max_call_buffer_size
        /\ \A i \in 1..Len(outgoing) :
              Len(C13_call_data(outgoing[i])) <= bridge.limits_config.max_call_buffer_size

C14_BufferOps ==
    { "append_to_call_buffer", "close_call_buffer", "bridge_call_buffered",
      "bridge_sol_with_buffered_call", "buffered_bridge_sol_with_buffered_call",
      "bridge_spl_with_buffered_call", "bridge_wrapped_token_with_buffered_call" }

\* The result of an attempt refused for the signer alone: Unauthorized, and the
\* buffers as they were.
C14_Refused(r) == ~r.ok /\ r.err = "Unauthorized" /\ r.w.buffers = buffers

\* Every attempt of `signer` on buffer b whose other accounts are in order (the
\* hardcoded fee receiver, an existing mint) is refused.
C14_AttemptsRefused(signer, b) ==
    /\ \A d \in BufferData : C14_Refused(append_to_call_buffer(World, signer, b, d))
    /\ C14_Refused(close_call_buffer(World, signer, b))
    /\ \A i \in CallInstructionInputs \cup TransferInputs :
          /\ C14_Refused(bridge_call_buffered(World, now, i.payer, i.payer,
                             i.gas_fee_receiver, signer, b, i.gas_limit))
          /\ C14_Refused(buffered_bridge_sol_with_buffered_call(World, now, i.payer,
                             i.payer, i.gas_fee_receiver, signer, b, i.gas_limit, "0x1",
                             REMOTE_TOKEN, i.amount))
          /\ HardcodedGasFeeReceiver(i.gas_fee_receiver) =>
                /\ C14_Refused(bridge_sol_with_buffered_call(World, now, i.payer, i.payer,
                                   i.gas_fee_receiver, signer, b, i.gas_limit, "0x1",
                                   REMOTE_TOKEN, i.amount))
                /\ \A m \in Mints :
                      (MintExists(World, m) /\ (m \in tokens.vaults \/ lamports[i.payer] >= Rent))
                      => /\ C14_Refused(bridge_spl_with_buffered_call(World, now, i.payer,
                                            i.payer, i.gas_fee_receiver, m, signer, b,
                                            i.gas_limit, "0x1", REMOTE_TOKEN, i.amount))
                         /\ C14_Refused(bridge_wrapped_token_with_buffered_call(World, now,
                                            i.payer, i.payer, i.gas_fee_receiver, m, signer,
                                            b, i.gas_limit, "0x1", i.amount))

C15_BufferedBridgeOps ==
    { "bridge_call_buffered", "bridge_sol_with_buffered_call",
      "buffered_bridge_sol_with_buffered_call", "bridge_spl_with_buffered_call",
      "bridge_wrapped_token_with_buffered_call" }

\* The call an outgoing message carries, None for a transfer without one.
C15_call(m) ==
    IF m.message.kind = "Call" THEN Some(m.message.call) ELSE m.message.transfer.call

\* C15: a successful buffered bridge operation persists an outgoing message
\* whose call is exactly the buffer's ty, to, value and data (the initial data
\* followed by the appended chunks), and in the same step closes the buffer and
\* returns its rent to the owner; a failed one leaves the buffers as they were.
C15_ConsumeOrKeep ==
    [][(initialized /\ last'.op \in C15_BufferedBridgeOps) =>
          IF last'.ok
          THEN \A b \in BufferIds :
                  buffers[b].exists =>
                     /\ ~buffers'[b].exists
                     /\ Len(outgoing') = Len(outgoing) + 1
                     /\ C15_call(outgoing'[Len(outgoing')]) = Some(buffered_call(World, b))
                     /\ outgoing'[Len(outgoing')].original_payer # buffers[b].owner
                           => lamports'[buffers[b].owner] = lamports[buffers[b].owner] + Rent
          ELSE buffers' = buffers]_vars

C16_CallTypes == {"Call", "DelegateCall", "Create", "Create2"}
C16_Creation(call) == call.ty \in {"Create", "Create2"} /\ call.to # ZERO_ADDRESS
C16_Calls == { Call(ty, to, 0, d) : ty \in C16_CallTypes, to \in {ZERO_ADDRESS, "0x1"},
                                    d \in BufferData }
C16_AsPlainCall(call) == [call EXCEPT !.ty = "Call"]

\* `bad` is the result with a creation call that has a target, `good` the result
\* of the same instruction with the call type replaced by Call: the first
\* fails, with CreationWithNonZeroTarget when the call is the only fault.
C16_Rejected(w, bad, good) ==
    /\ ~bad.ok
    /\ good.ok => bad.err = "CreationWithNonZeroTarget"

C16_InlineRejected ==
    \A i \in TransferInputs, c \in { x \in C16_Calls : C16_Creation(x) } :
       LET p == i.payer
           r == i.gas_fee_receiver
           g == i.gas_limit
           ok_c == C16_AsPlainCall(c)
       IN  /\ C16_Rejected(World, bridge_call(World, now, p, p, r, g, c),
                                  bridge_call(World, now, p, p, r, g, ok_c))
           /\ C16_Rejected(World,
                  bridge_sol(World, now, p, p, r, g, "0x1", REMOTE_TOKEN, i.amount, Some(c)),
                  bridge_sol(World, now, p, p, r, g, "0x1", REMOTE_TOKEN, i.amount, Some(ok_c)))
           /\ \A m \in Mints :
                 /\ C16_Rejected(World,
                        bridge_spl(World, now, p, p, r, m, g, "0x1", REMOTE_TOKEN, i.amount,
                                   Some(c)),
                        bridge_spl(World, now, p, p, r, m, g, "0x1", REMOTE_TOKEN, i.amount,
                                   Some(ok_c)))
                 /\ C16_Rejected(World,
                        bridge_wrapped_token(World, now, p, p, r, m, g, "0x1", i.amount,
                                             Some(c)),
                        bridge_wrapped_token(World, now, p, p, r, m, g, "0x1", i.amount,
                                             Some(ok_c)))

C16_BufferedRejected ==
    \A b \in BufferIds :
       (buffers[b].exists /\ C16_Creation(buffered_call(World, b))) =>
          \A i \in TransferInputs, o \in Users :
             LET p == i.payer
                 r == i.gas_fee_receiver
                 g == i.gas_limit
                 plain == [World EXCEPT !.buffers[b].ty = "Call"]
             IN  /\ C16_Rejected(World, bridge_call_buffered(World, now, p, p, r, o, b, g),
                                        bridge_call_buffered(plain, now, p, p, r, o, b, g))
                 /\ C16_Rejected(World,
                        buffered_bridge_sol_with_buffered_call(World, now, p, p, r, o, b, g,
                            "0x1", REMOTE_TOKEN, i.amount),
                        buffered_bridge_sol_with_buffered_call(plain, now, p, p, r, o, b, g,
                            "0x1", REMOTE_TOKEN, i.amount))
                 /\ C16_Rejected(World,
                        bridge_sol_with_buffered_call(World, now, p, p, r, o, b, g, "0x1",
                            REMOTE_TOKEN, i.amount),
                        bridge_sol_with_buffered_call(plain, now, p, p, r, o, b, g, "0x1",
                            REMOTE_TOKEN, i.amount))
                 /\ \A m \in Mints :
                       /\ C16_Rejected(World,
                              bridge_spl_with_buffered_call(World, now, p, p, r, m, o, b, g,
                                  "0x1", REMOTE_TOKEN, i.amount),
                              bridge_spl_with_buffered_call(plain, now, p, p, r, m, o, b, g,
                                  "0x1", REMOTE_TOKEN, i.amount))
                       /\ C16_Rejected(World,
                              bridge_wrapped_token_with_buffered_call(World, now, p, p, r, m,
                                  o, b, g, "0x1", i.amount),
                              bridge_wrapped_token_with_buffered_call(plain, now, p, p, r, m,
                                  o, b, g, "0x1", i.amount))

\* C16: no persisted outgoing message carries a Create or Create2 call with a
\* non-zero target, be the call top-level, the optional call of a transfer or
\* taken from a call buffer: an outbound operation given such a call fails with
\* CreationWithNonZeroTarget (a failed instruction commits nothing), while
\* check_call accepts every target for Call and DelegateCall.
C16_NoCreationWithTarget ==
    initialized =>
        /\ \A k \in 1..Len(outgoing) :
              LET call == IF outgoing[k].message.kind = "Call"
                          THEN Some(outgoing[k].message.call)
                          ELSE outgoing[k].message.transfer.call
              IN  call # None => ~C16_Creation(call[1])
        /\ C16_InlineRejected
        /\ C16_BufferedRejected
        /\ \A c \in C16_Calls : check_call(c) <=> ~C16_Creation(c)

C16_Witness ==
    /\ last.op = "bridge_call_buffered" /\ ~last.ok
    /\ last.err = "CreationWithNonZeroTarget"
    /\ \E b \in BufferIds : buffers[b].exists /\ C16_Creation(buffered_call(World, b))
    /\ Len(outgoing) > 0

\* C17: in every reachable state of the initialized bridge, the guardian's
\* setters included, eip1559.current_base_fee is at least
\* eip1559.minimum_base_fee.
C17_FeeFloorUnderSetters ==
    initialized => bridge.eip1559.current_base_fee >= bridge.eip1559.minimum_base_fee

C18_WithPause(w, p) == [w EXCEPT !.bridge.paused = p]

\* The two results agree: both fail with the same error, or both succeed and
\* leave the same state up to the pause flag, which neither touches.
C18_SameOutcome(paused_result, unpaused_result) ==
    /\ paused_result.ok = unpaused_result.ok
    /\ paused_result.err = unpaused_result.err
    /\ paused_result.ok =>
          /\ paused_result.w.bridge.paused /\ ~unpaused_result.w.bridge.paused
          /\ C18_WithPause(paused_result.w, FALSE) = unpaused_result.w

\* C18: the pause switch does not affect the inbound side: register_output_root,
\* prove_message and relay_message have the same outcome and leave the same
\* state whether bridge.paused is true or false.
C18_PauseDoesNotAffectInbound ==
    initialized =>
        LET P == C18_WithPause(World, TRUE)
            U == C18_WithPause(World, FALSE)
        IN  /\ \A payer \in {TRUSTED_ORACLE, "alice"}, root \in Roots, b \in BlockNumbers :
                  \A sigs \in SignatureLists(create_ism_message_hash(root, b)) :
                     C18_SameOutcome(register_output_root(P, payer, root, b, sigs),
                                     register_output_root(U, payer, root, b, sigs))
            /\ \A r \in roots \cup {OutputRoot(300, ROOT_A)}, m \in Messages,
                  claimed \in MessageHashes, proof \in {"valid", "garbage"} :
                  C18_SameOutcome(
                      prove_message(P, "alice", r, m.nonce, m.sender, m.data, proof, claimed),
                      prove_message(U, "alice", r, m.nonce, m.sender, m.data, proof, claimed))
            /\ \A h \in MessageHashes, accs \in RelayAccounts :
                  C18_SameOutcome(relay_message(P, h, accs), relay_message(U, h, accs))

C18_Witness ==
    /\ bridge.paused
    /\ last.op = "relay_message" /\ last.ok
    /\ \E h \in MessageHashes : incoming[h].executed

\* Every registration for a block that already has a root is refused.
C19_SecondRegistrationFails ==
    \A r \in roots, payer \in {TRUSTED_ORACLE, "alice"}, root \in Roots :
       \A sigs \in SignatureLists(create_ism_message_hash(root, r.block)) :
          ~register_output_root(World, payer, root, r.block, sigs).ok

\* C19: an output root is created only by a register_output_root signed by the
\* trusted oracle (any other signer fails, with Unauthorized when the block
\* has no root yet and the signer could pay for one), at most one root exists
\* per block number, a second registration for the same block fails, and a
\* stored root is never modified or deleted.
C19_OutputRootWriteOnce ==
    [][initialized =>
          /\ roots \subseteq roots'
          /\ roots' # roots =>
                /\ last'.op = "register_output_root" /\ last'.ok
                /\ last'.signer = TRUSTED_ORACLE
                /\ Cardinality(roots' \ roots) = 1
          /\ (last'.op = "register_output_root" /\ last'.signer # TRUSTED_ORACLE) =>
                /\ ~last'.ok /\ roots' = roots
                /\ last'.err \in {"Unauthorized", "AccountAlreadyInUse", "InsufficientFunds"}
          /\ \A root \in Roots, b \in BlockNumbers :
                (~OutputRootExists(World, b) /\ lamports["alice"] >= Rent) =>
                   \A sigs \in SignatureLists(create_ism_message_hash(root, b)) :
                      LET r == register_output_root(World, "alice", root, b, sigs)
                      IN  ~r.ok /\ r.err = "Unauthorized"
          /\ \A r1 \in roots', r2 \in roots' : r1.block = r2.block => r1 = r2
          /\ C19_SecondRegistrationFails]_vars

C19_Witness ==
    /\ roots # {}
    /\ last.op = "register_output_root" /\ last.signer = "alice"
    /\ ~last.ok /\ last.err = "Unauthorized"

C20_DataLens == {0, 1, 31, 32, 33, 64}
C20_Data(n) == [k \in 1..n |-> 0]
C20_Call(n) == Call("Call", ZERO_ADDRESS, 0, C20_Data(n))

\* One message of each shape for each data length.
C20_Messages ==
    { new_call(0, "alice", "alice", 0, C20_Call(n)) : n \in C20_DataLens }
      \cup { new_transfer(0, "alice", "alice", 0,
                 TransferOp("0x1", NATIVE_SOL_PUBKEY, REMOTE_TOKEN, 0, None)) }
      \cup { new_transfer(0, "alice", "alice", 0,
                 TransferOp("0x1", NATIVE_SOL_PUBKEY, REMOTE_TOKEN, 0, Some(C20_Call(n))))
               : n \in C20_DataLens }

\* The size the claim states: 544, 480 or 704 bytes by shape, plus the call
\* data padded to a multiple of 32.
C20_StatedSize(m) ==
    IF m.message.kind = "Call"
    THEN RELAY_MESSAGES_CALL_ABI_ENCODING_OVERHEAD
             + div_ceil(Len(m.message.call.data), 32) * 32
    ELSE IF m.message.transfer.call = None
    THEN RELAY_MESSAGES_TRANSFER_ABI_ENCODING_OVERHEAD
    ELSE RELAY_MESSAGES_TRANSFER_AND_CALL_ABI_ENCODING_OVERHEAD
             + div_ceil(Len(m.message.transfer.call[1].data), 32) * 32

\* C20: for every outgoing message of each shape (Call, Transfer without call,
\* Transfer with call) and every call-data length, relay_messages_tx_size is
\* the length of the ABI encoding of relayMessages([m], empty ismData): 544,
\* 480 or 704 bytes plus the call data padded to a multiple of 32.
C20_TxSizeIsAbiLength ==
    initialized =>
        \A m \in C20_Messages \cup { outgoing[k] : k \in 1..Len(outgoing) } :
           /\ relay_messages_abi_encoded_size(m) = C20_StatedSize(m)
           /\ relay_messages_tx_size(m) = relay_messages_abi_encoded_size(m)

C21_GasLimits == {1, 123, MAX_GAS_LIMIT_PER_MESSAGE}
C21_BaseFees == {1, 100, 200000, 1000000000}
C21_Scalers == {1, 2, GAS_COST_SCALER, 1000000000}
C21_ScalerDps == {1, 2, GAS_COST_SCALER_DP}

\* floor(gas_limit * base_fee * gas_cost_scaler / gas_cost_scaler_dp), the
\* product taken in 128 bits.
C21_ExactFee(gas_limit, base_fee, gas_cost_scaler, gas_cost_scaler_dp) ==
    limbs_div(limbs_mul(limbs_mul(Limbs(gas_limit), Limbs(base_fee)),
                        Limbs(gas_cost_scaler)), gas_cost_scaler_dp)

\* C21: for every gas_limit up to max_gas_limit_per_message and every base fee,
\* gas_cost_scaler and gas_cost_scaler_dp within the setter bounds, the fee
\* charged is exactly floor(gas_limit * base_fee * gas_cost_scaler /
\* gas_cost_scaler_dp): the intermediate product neither wraps nor aborts the
\* charge, whichever way the program is built.
C21_FeeIsExact ==
    initialized =>
        \A gas_limit \in C21_GasLimits,
           base_fee \in C21_BaseFees \cup {bridge.eip1559.current_base_fee},
           scaler \in C21_Scalers \cup {bridge.gas_cost_config.gas_cost_scaler},
           dp \in C21_ScalerDps \cup {bridge.gas_cost_config.gas_cost_scaler_dp},
           overflow_checks \in BOOLEAN :
           (gas_limit <= bridge.gas_config.max_gas_limit_per_message /\ base_fee > 0) =>
              LET cost == pay_for_gas_cost(gas_limit, base_fee, scaler, dp, overflow_checks)
              IN  cost.ok /\ cost.value = C21_ExactFee(gas_limit, base_fee, scaler, dp)

\* 1 <= threshold <= signer_count <= the capacity of the address array, and
\* the first signer_count addresses are pairwise distinct.
C23_WellFormed(threshold, signer_count, addrs) ==
    /\ 1 <= threshold /\ threshold <= signer_count /\ signer_count <= Len(addrs)
    /\ \A i \in 1..signer_count, j \in 1..signer_count : i # j => addrs[i] # addrs[j]

C23_Stored(o) == C23_WellFormed(o.threshold, o.signer_count, o.signers)

C22_Values ==
    { 0, 1, 100, 101, 3600, 3601, 10000, 10001, 64 * 1024, 64 * 1024 + 1,
      1000000, 1000001, 1024 * 1024, 1024 * 1024 + 1, 1000000000, 1000000001 }

C22_Setter(lo, hi, v, r, changed) ==
    /\ r.ok <=> (lo <= v /\ v <= hi)
    /\ r.ok => r.w = changed
    /\ ~r.ok => r.w = World

C22_Eip1559Setters(v) ==
    /\ C22_Setter(1, 1000000000, v, set_minimum_base_fee_handler(World, v), [World EXCEPT !.bridge.eip1559.minimum_base_fee = v])
    /\ C22_Setter(1, 3600, v, set_window_duration_handler(World, v), [World EXCEPT !.bridge.eip1559.window_duration_seconds = v])
    /\ C22_Setter(1, 1000000000, v, set_gas_target_handler(World, v), [World EXCEPT !.bridge.eip1559.target = v])
    /\ C22_Setter(1, 100, v, set_adjustment_denominator_handler(World, v), [World EXCEPT !.bridge.eip1559.denominator = v])

C22_GasCostSetters(v) ==
    /\ C22_Setter(1, 1000000000, v, set_max_gas_limit_per_message_handler(World, v), [World EXCEPT !.bridge.gas_config.max_gas_limit_per_message = v])
    /\ C22_Setter(1, 1000000000, v, set_gas_cost_scaler_handler(World, v), [World EXCEPT !.bridge.gas_cost_config.gas_cost_scaler = v])
    /\ C22_Setter(1, 1000000000, v, set_gas_cost_scaler_dp_handler(World, v), [World EXCEPT !.bridge.gas_cost_config.gas_cost_scaler_dp = v])
    /\ C22_Setter(1, 10000, v, set_block_interval_requirement_handler(World, v), [World EXCEPT !.bridge.protocol_config.block_interval_requirement = v])

C22_GasBufferSetters(v) ==
    /\ C22_Setter(0, 1000000, v, set_base_gas_buffer_handler(World, v), [World EXCEPT !.bridge.gas_config.base_transaction_cost = v])
    /\ C22_Setter(0, 1000000, v, set_extra_gas_buffer_handler(World, v), [World EXCEPT !.bridge.gas_config.extra = v])
    /\ C22_Setter(0, 1000000, v, set_execution_prologue_gas_buffer_handler(World, v), [World EXCEPT !.bridge.gas_config.execution_prologue = v])
    /\ C22_Setter(0, 1000000, v, set_execution_gas_buffer_handler(World, v), [World EXCEPT !.bridge.gas_config.execution = v])
    /\ C22_Setter(0, 1000000, v, set_execution_epilogue_gas_buffer_handler(World, v), [World EXCEPT !.bridge.gas_config.execution_epilogue = v])

C22_CallBufferSizeSetter(v) ==
    C22_Setter(1, 1024 * 1024, v, set_max_call_buffer_size_handler(World, v), [World EXCEPT !.bridge.limits_config.max_call_buffer_size = v])

C22_SettersAcceptExactlyTheirRanges ==
    initialized =>
        \A v \in C22_Values :
            /\ C22_Eip1559Setters(v)
            /\ C22_GasCostSetters(v)
            /\ C22_GasBufferSetters(v)
            /\ C22_CallBufferSizeSetter(v)

\* The part of C22 the setters of the fee engine, the gas cost, the gas limit
\* and the block interval have.
C22_SettersOtherThanBuffers ==
    initialized => \A v \in C22_Values : C22_Eip1559Setters(v) /\ C22_GasCostSetters(v)

C22_CallBufferSizeOnly == initialized => \A v \in C22_Values : C22_CallBufferSizeSetter(v)
C22_GasBuffersOnly == initialized => \A v \in C22_Values : C22_GasBufferSetters(v)

C24_Attempt(r, m, claimed, proof) ==
    LET res == prove_message(World, "alice", r, m.nonce, m.sender, m.data, proof, claimed)
        accounts == ProveMessage_accounts(World, "alice", r, claimed)
        matches == claimed = hash_message(m.nonce, m.sender, m.data)
        proven == mmr_verify_proof(r.root, claimed, proof) = ""
    IN  /\ res.ok =>
            /\ matches /\ proven /\ r \in roots
            /\ ~incoming[claimed].exists
            /\ res.w.incoming =
                   [incoming EXCEPT ![claimed] =
                        [ exists |-> TRUE, executed |-> FALSE, sender |-> m.sender,
                          message |-> m.data ]]
        /\ (~matches \/ ~proven) => (~res.ok /\ res.w.incoming = incoming)
        /\ (accounts.ok /\ ~matches) => res.err = "InvalidMessageHash"
        /\ (accounts.ok /\ matches /\ proven) => res.ok

\* C24: prove_message creates IncomingMessage(message_hash), unexecuted and with
\* the given sender and message, only if message_hash is the hash of (nonce,
\* sender, data) and the proof leads from message_hash to the root of the
\* supplied registered OutputRoot; a hash mismatch (InvalidMessageHash) or an
\* invalid proof creates nothing; every IncomingMessage that exists was proven
\* against the root of a registered OutputRoot.
C24_ProvenAgainstRegisteredRoot ==
    /\ \A r \in roots \cup {OutputRoot(300, ROOT_A)}, m \in Messages,
          claimed \in MessageHashes, proof \in {"valid", "garbage"} :
          C24_Attempt(r, m, claimed, proof)
    /\ \A h \in MessageHashes :
          incoming[h].exists =>
              /\ \E r \in roots : h \in Committed(r.root)
              /\ \E m \in Messages :
                    /\ h = hash_message(m.nonce, m.sender, m.data)
                    /\ incoming[h].sender = m.sender
                    /\ incoming[h].message = m.data

C24_Witness ==
    /\ last.op = "prove_message" /\ last.ok
    /\ \E h \in MessageHashes : incoming[h].exists /\ ~incoming[h].executed
    /\ \E r \in roots : r.root = ROOT_B

C25_GasLimits ==
    { g \in { 0, 1, 2,
              bridge.gas_config.max_gas_limit_per_message - 1,
              bridge.gas_config.max_gas_limit_per_message,
              bridge.gas_config.max_gas_limit_per_message + 1 } : g >= 0 }

\* C25: the gas pricer rejects a message with GasLimitExceeded exactly when
\* gas_limit > max_gas_limit_per_message (a gas limit equal to the maximum is
\* accepted), and a rejected message leaves the fee engine as it was (no
\* refresh, no gas usage added) and moves no lamports.
C25_GasLimitCheckedFirst ==
    initialized =>
        \A gas_limit \in C25_GasLimits, payer \in {"alice", "bob"} :
            LET max == bridge.gas_config.max_gas_limit_per_message
                exceeded == gas_limit > max
                checked == check_gas_limit(World, gas_limit)
            IN  /\ checked.ok <=> ~exceeded
                /\ ~checked.ok => checked.err = "GasLimitExceeded"
                /\ exceeded =>
                      check_and_pay_for_gas(World, now, payer, GAS_FEE_RECEIVER, gas_limit, 0)
                          = Err("GasLimitExceeded", World)
                /\ (~exceeded /\ gas_limit <= 2) =>
                      LET paid == check_and_pay_for_gas(World, now, payer, GAS_FEE_RECEIVER, gas_limit, 0)
                      IN  /\ paid.err # "GasLimitExceeded"
                          /\ paid.ok =>
                                paid.w.bridge.eip1559 =
                                    add_gas_usage(refresh_base_fee(bridge.eip1559, now), gas_limit)

\* A call with gas_limit equal to the lowered maximum went through, and the
\* window it opened has its gas.
C25_Witness ==
    /\ last.op = "bridge_call" /\ last.ok
    /\ bridge.gas_config.max_gas_limit_per_message = 1
    /\ Len(outgoing) > 0
    /\ outgoing[Len(outgoing)].gas_limit = 1
    /\ bridge.eip1559.current_window_gas_used > 0

\* A call above the maximum was refused.
C25_WitnessRefused == last.op = "bridge_call" /\ last.err = "GasLimitExceeded"

C26_Inputs == { i \in TransferInputs : i.call = None }

\* The buffered result is the inline result with the buffer closed.
C26_Equivalent(inline, buffered, owner, b) ==
    /\ inline.ok <=> buffered.ok
    /\ inline.ok => buffered.w = close_account_call_buffer(inline.w, owner, b)

C26_CallPair(i, owner, b) ==
    C26_Equivalent(
        bridge_call(World, now, i.payer, i.payer, i.gas_fee_receiver, i.gas_limit,
                    buffered_call(World, b)),
        bridge_call_buffered(World, now, i.payer, i.payer, i.gas_fee_receiver, owner, b,
                             i.gas_limit),
        owner, b)

C26_SolPair(i, owner, b) ==
    C26_Equivalent(
        bridge_sol(World, now, i.payer, i.payer, i.gas_fee_receiver, i.gas_limit, "0x1",
                   REMOTE_TOKEN, i.amount, Some(buffered_call(World, b))),
        bridge_sol_with_buffered_call(World, now, i.payer, i.payer, i.gas_fee_receiver,
                                      owner, b, i.gas_limit, "0x1", REMOTE_TOKEN, i.amount),
        owner, b)

\* C26: a buffered bridge operation on a buffer holding (ty, to, value, data)
\* and the inline operation given Call{ty, to, value, data} succeed or fail
\* together from the same state and with the same other arguments, and on
\* success leave the same OutgoingMessage, nonce, fee engine and balances, the
\* closed buffer (and its refunded rent) being the only difference.
C26_BufferedEqualsInline ==
    initialized =>
        \A i \in C26_Inputs, b \in BufferIds :
            buffers[b].exists =>
                /\ C26_CallPair(i, buffers[b].owner, b)
                /\ C26_SolPair(i, buffers[b].owner, b)

\* The part of C26 that bridge_call_buffered has.
C26_BufferedCallEqualsInline ==
    initialized =>
        \A i \in C26_Inputs, b \in BufferIds :
            buffers[b].exists => C26_CallPair(i, buffers[b].owner, b)

C27_Engines ==
    { [bridge.eip1559 EXCEPT !.current_base_fee = base] :
          base \in { bridge.eip1559.minimum_base_fee,
                     bridge.eip1559.minimum_base_fee + 1,
                     bridge.eip1559.minimum_base_fee + 100 } }

C27_GasUsed == { g \in {0, 1, bridge.eip1559.target \div 2, bridge.eip1559.target - 1} :
                     g < bridge.eip1559.target }

C27_Delta(e, gas_used) ==
    (((e.target - gas_used) * e.current_base_fee) \div e.target) \div e.denominator

\* C27: closing a window that used less gas than the target gives the base fee
\* max(base - delta, minimum_base_fee) with
\* delta = (target - gas_used) * base / target / denominator; the result is never
\* below the minimum and the subtraction never underflows, for every
\* base >= minimum and every denominator in 1..100.
C27_DecreaseClampedAtMinimum ==
    initialized =>
        \A e \in C27_Engines, gas_used \in C27_GasUsed :
            /\ C27_Delta(e, gas_used) <= e.current_base_fee
            /\ calc_base_fee(e, gas_used)
                   = Max(e.current_base_fee - C27_Delta(e, gas_used), e.minimum_base_fee)
            /\ calc_base_fee(e, gas_used) >= e.minimum_base_fee

\* The subtraction of C27 never underflows, and the fallback to the minimum is
\* therefore never taken.
C27_NoUnderflow ==
    initialized =>
        \A e \in C27_Engines, gas_used \in C27_GasUsed :
            /\ C27_Delta(e, gas_used) <= e.current_base_fee
            /\ calc_base_fee(e, gas_used) = e.current_base_fee - C27_Delta(e, gas_used)

\* C28: every created OutgoingMessage can be reclaimed: whatever its nonce, the
\* program reaches a state with base_last_relayed_nonce at or above it, where
\* close_outgoing_message succeeds and refunds the original payer; no message's
\* rent stays locked forever.
C28_EveryMessageReclaimed ==
    \A k \in 1..MaxNonce :
        (Len(outgoing) >= k) ~> (Len(outgoing) >= k /\ outgoing[k].closed)

\* No instruction records an acknowledgement of Base.
C28_NeverAcknowledged == bridge.base_last_relayed_nonce = 0

\* A message with a nonce above 0 is never closed.
C28_LaterMessagesStayOpen ==
    \A k \in 1..Len(outgoing) : outgoing[k].nonce > 0 => ~outgoing[k].closed

\* The first message, of nonce 0, was closed and a later one exists.
C28_FirstClosedSecondOpen ==
    /\ Len(outgoing) = 2
    /\ outgoing[1].closed
    /\ outgoing[2].nonce = 1 /\ ~outgoing[2].closed

\* Fee engines whose open window used exactly the target: the engine of the
\* bridge with other base fees and denominators.
C29_Engines ==
    { [bridge.eip1559 EXCEPT !.current_base_fee = base, !.denominator = d,
                             !.current_window_gas_used = bridge.eip1559.target] :
          base \in { bridge.eip1559.current_base_fee, 1, 2, 7, 1000, 8000, 100000 },
          d \in { bridge.eip1559.denominator, 1, 2, 3, 8, 100 } }

C29_Ratio(e) == (e.denominator * SCALE - SCALE) \div e.denominator

C29_Decayed(e, n) == (e.current_base_fee * fixed_pow(C29_Ratio(e), n - 1)) \div SCALE

C29_After(e, n) ==
    refresh_base_fee(e, e.window_start_time + n * e.window_duration_seconds).current_base_fee

C29_Closed(e) ==
    \A n \in 1..MaxWindows :
        /\ expired_windows_count(e, e.window_start_time + n * e.window_duration_seconds) = n
        /\ C29_After(e, n) = C29_Decayed(e, n)
        /\ C29_After(e, n + 1) <= C29_After(e, n)

C29_Due ==
    /\ initialized
    /\ bridge.eip1559.current_window_gas_used = bridge.eip1559.target
    /\ expired_windows_count(bridge.eip1559, now) >= 1

\* C29: a refresh that spans N >= 1 expired windows, the first of which used
\* exactly the target, leaves the base fee
\* floor(base * fixed_pow(ratio, N - 1) / SCALE) with
\* ratio = (denominator * SCALE - SCALE) / denominator, and the result does not
\* increase with N.
C29_EmptyWindowDecay ==
    /\ initialized => \A e \in C29_Engines : C29_Closed(e)
    /\ C29_Due =>
          refresh_base_fee(bridge.eip1559, now).current_base_fee
              = C29_Decayed(bridge.eip1559, expired_windows_count(bridge.eip1559, now))

\* A window that used exactly the target expired two windows ago and the
\* refresh is due.
C29_Witness ==
    /\ C29_Due
    /\ expired_windows_count(bridge.eip1559, now) = 2
    /\ last.op = "bridge_call" /\ last.ok

\* N successive refreshes, one at each window boundary, with no gas used in
\* between.
RECURSIVE C30_Stepwise(_, _)
C30_Stepwise(e, n) ==
    IF n = 0 THEN e
    ELSE C30_Stepwise(refresh_base_fee(e, e.window_start_time + e.window_duration_seconds),
                      n - 1)

C30_AtOnce(e, n) == refresh_base_fee(e, e.window_start_time + n * e.window_duration_seconds)

\* Fee engines: the engine of the bridge with other base fees.
C30_Engines ==
    { [bridge.eip1559 EXCEPT !.current_base_fee = base] :
          base \in { bridge.eip1559.current_base_fee, 2, 7, 100, 400 } }

\* C30: one refresh over N expired windows leaves the same current_base_fee as
\* N successive single-window refreshes with no gas used in between.
C30_RefreshIsAssociative ==
    initialized =>
        \A e \in C30_Engines, n \in 1..MaxWindows :
            C30_AtOnce(e, n).current_base_fee = C30_Stepwise(e, n).current_base_fee

\* The two agree on the window they leave open.
C30_SameWindow ==
    initialized =>
        \A e \in C30_Engines, n \in 1..MaxWindows :
            /\ C30_AtOnce(e, n).window_start_time = C30_Stepwise(e, n).window_start_time
            /\ C30_AtOnce(e, n).current_window_gas_used = 0
            /\ C30_Stepwise(e, n).current_window_gas_used = 0

\* The one-step refresh is never above the stepwise one.
C30_AtOnceNotAbove ==
    initialized =>
        \A e \in C30_Engines, n \in 1..MaxWindows :
            C30_AtOnce(e, n).current_base_fee <= C30_Stepwise(e, n).current_base_fee

C31_Cost(gas_limit, base_fee) ==
    (gas_limit * base_fee * bridge.gas_cost_config.gas_cost_scaler)
        \div bridge.gas_cost_config.gas_cost_scaler_dp

\* pay_for_gas on the current state: the price comes from the refreshed fee and
\* the gas is recorded in the window the refresh opened.
C31_Charge(payer, gas_limit) ==
    LET refreshed == refresh_base_fee(bridge.eip1559, now)
        paid == pay_for_gas(World, now, payer, GAS_FEE_RECEIVER, gas_limit)
        cost == C31_Cost(gas_limit, refreshed.current_base_fee)
    IN  paid.ok =>
            /\ paid.w.bridge.eip1559.current_base_fee = refreshed.current_base_fee
            /\ paid.w.bridge.eip1559.current_window_gas_used
                   = refreshed.current_window_gas_used + gas_limit
            /\ expired_windows_count(bridge.eip1559, now) >= 1 =>
                  /\ paid.w.bridge.eip1559.current_window_gas_used = gas_limit
                  /\ paid.w.bridge.eip1559.window_start_time = now
            /\ paid.w.lamports[GAS_FEE_RECEIVER] = lamports[GAS_FEE_RECEIVER] + cost
            /\ paid.w.lamports[payer] = lamports[payer] - cost

C31_ChargeRefreshesFirst ==
    initialized => \A payer \in Users, gas_limit \in {0, 1, 2} : C31_Charge(payer, gas_limit)

\* A successful bridge_call made after a window expired.
C31_Step ==
    (last'.op = "bridge_call" /\ last'.ok /\ now' = now
        /\ expired_windows_count(bridge.eip1559, now) >= 1) =>
        LET message == outgoing'[Len(outgoing')]
            refreshed == refresh_base_fee(bridge.eip1559, now)
        IN  /\ bridge'.eip1559.window_start_time = now
            /\ bridge'.eip1559.current_base_fee = refreshed.current_base_fee
            /\ bridge'.eip1559.current_window_gas_used
                   = message.gas_limit + overhead(relay_messages_tx_size(message))
            /\ lamports'[GAS_FEE_RECEIVER] - lamports[GAS_FEE_RECEIVER]
                   = C31_Cost(message.gas_limit, refreshed.current_base_fee)

\* C31: the gas pricer prices a message with the base fee refresh_base_fee
\* returns at the current time and records the message's gas only afterwards:
\* when a window has expired, after the charge current_window_gas_used is this
\* message's gas alone, window_start_time is now and the lamports moved are
\* computed from the refreshed base fee.
C31_PricedBeforeRecorded == []C31_ChargeRefreshesFirst /\ [][C31_Step]_vars

\* A call was charged after two windows had expired: the fee fell from 1 to 0
\* before the message was priced, and the window holds the gas of this message.
C31_Witness ==
    /\ last.op = "bridge_call" /\ last.ok
    /\ now = 2
    /\ bridge.eip1559.window_start_time = 2
    /\ bridge.eip1559.current_base_fee = 0
    /\ bridge.eip1559.current_window_gas_used = 1
    /\ Len(outgoing) = 1

\* Every prove_message for the hash of an existing IncomingMessage fails.
C32_ReproofFails ==
    \A h \in MessageHashes :
        incoming[h].exists =>
            \A r \in roots \cup {OutputRoot(300, ROOT_A)}, m \in Messages,
               proof \in {"valid", "garbage"}, payer \in Users :
                LET res == prove_message(World, payer, r, m.nonce, m.sender, m.data, proof, h)
                IN  ~res.ok /\ res.w.incoming = incoming

\* No step deletes or rewrites an IncomingMessage or clears its executed flag.
C32_Step ==
    \A h \in MessageHashes :
        incoming[h].exists =>
            /\ incoming'[h].exists
            /\ incoming'[h].sender = incoming[h].sender
            /\ incoming'[h].message = incoming[h].message
            /\ incoming[h].executed => incoming'[h].executed

\* C32: once IncomingMessage(h) exists every further prove_message for the same
\* message_hash fails and leaves the account unchanged; no instruction resets
\* executed from true to false or deletes the message, so an executed message
\* never becomes relayable again.
C32_ProvenOnce == []C32_ReproofFails /\ [][C32_Step]_vars

\* The only IncomingMessage is executed and a prove_message for it was just
\* refused by `init`.
C32_Witness ==
    /\ last.op = "prove_message" /\ ~last.ok /\ last.err = "AccountAlreadyInUse"
    /\ \E h \in MessageHashes :
          /\ incoming[h].exists /\ incoming[h].executed
          /\ \A g \in MessageHashes \ {h} : ~incoming[g].exists

C33_OtherMints == Mints \ {WRAPPED_MINT}

\* C33: bridge_wrapped_token burns tokens and emits a Transfer message only
\* when the supplied mint is the wrapped-token PDA of the program; for any
\* other mint, a Token-2022 mint with well-formed metadata included, it fails
\* with IncorrectWrappedMint, creates no OutgoingMessage and leaves the nonce.
C33_OnlyWrappedMintBridges ==
    initialized =>
        \A i \in TransferInputs, m \in C33_OtherMints :
            LET accounts == BridgeWrappedToken_accounts(World, i.payer, i.gas_fee_receiver, m)
                res == bridge_wrapped_token(World, now, i.payer, i.payer,
                           i.gas_fee_receiver, m, i.gas_limit, "0x1", i.amount, i.call)
            IN  /\ ~res.ok
                /\ (accounts.ok /\ (i.call = None \/ check_call(i.call[1]))) =>
                      res.err = "IncorrectWrappedMint"

\* The part of C33 that holds: a mint without the bridge's metadata is refused.
C33_PlainMintRefused ==
    initialized =>
        \A i \in TransferInputs :
            ~bridge_wrapped_token(World, now, i.payer, i.payer, i.gas_fee_receiver,
                                  SPL_MINT, i.gas_limit, "0x1", i.amount, i.call).ok

\* A message naming the foreign mint as local token was emitted.
C33_ForeignMintBridged ==
    \E k \in 1..Len(outgoing) :
        /\ outgoing[k].message.kind = "Transfer"
        /\ outgoing[k].message.transfer.local_token = FOREIGN_MINT

C34_Positive(e, gas_cost_scaler_dp) ==
    /\ e.target >= 1
    /\ e.denominator >= 1
    /\ e.window_duration_seconds >= 1
    /\ gas_cost_scaler_dp >= 1

\* The bridge's half of C34: its setters reject zero and its defaults are
\* positive.
C34_BridgeConfigurationPositive ==
    C34_Positive(bridge.eip1559, bridge.gas_cost_config.gas_cost_scaler_dp)

C34_RelayerConfigurationPositive ==
    relayer.initialized =>
        C34_Positive(relayer.cfg.eip1559, relayer.cfg.gas_config.gas_cost_scaler_dp)

\* C34: in every reachable fee-configuration state target, denominator,
\* window_duration_seconds and gas_cost_scaler_dp are all at least 1, so that
\* no charge divides by zero and none aborts because of a stored configuration.
C34_DivisorsPositive ==
    /\ C34_BridgeConfigurationPositive
    /\ C34_RelayerConfigurationPositive
    /\ (last.op = "pay_for_relay" => last.err # "DivisionByZero")

\* A charge of the relayer aborted on a division by zero.
C34_ChargeAborted ==
    /\ last.op = "pay_for_relay"
    /\ last.err = "DivisionByZero"
    /\ ~C34_Positive(relayer.cfg.eip1559, relayer.cfg.gas_config.gas_cost_scaler_dp)

C35_ConsumingOps ==
    { "bridge_call_buffered", "bridge_sol_with_buffered_call",
      "bridge_spl_with_buffered_call", "bridge_wrapped_token_with_buffered_call",
      "buffered_bridge_sol_with_buffered_call" }

\* Every append, close and consume of buffer b fails in world w.
C35_Dead(w, b) ==
    \A u \in Users :
        /\ ~append_to_call_buffer(w, u, b, << 7 >>).ok
        /\ ~close_call_buffer(w, u, b).ok
        /\ \A i \in CallInstructionInputs :
              ~bridge_call_buffered(w, now, i.payer, i.payer, i.gas_fee_receiver, u, b,
                                    i.gas_limit).ok
        /\ \A i \in TransferInputs :
              ~bridge_sol_with_buffered_call(w, now, i.payer, i.payer, i.gas_fee_receiver,
                   u, b, i.gas_limit, "0x1", REMOTE_TOKEN, i.amount).ok

\* Whichever of close_call_buffer and a buffered operation runs first on an
\* existing buffer, nothing succeeds on that buffer after it, and the buffered
\* operation adds one message.
C35_OneWinner ==
    \A b \in BufferIds :
        buffers[b].exists =>
            LET owner == buffers[b].owner
                closed == close_call_buffer(World, owner, b)
            IN  /\ closed.ok
                /\ C35_Dead(closed.w, b)
                /\ closed.w.outgoing = outgoing
                /\ \A i \in CallInstructionInputs :
                      LET consumed == bridge_call_buffered(World, now, i.payer, i.payer,
                                          i.gas_fee_receiver, owner, b, i.gas_limit)
                      IN  consumed.ok =>
                             /\ C35_Dead(consumed.w, b)
                             /\ Len(consumed.w.outgoing) = Len(outgoing) + 1
                /\ \A i \in TransferInputs :
                      LET consumed == bridge_sol_with_buffered_call(World, now, i.payer,
                                          i.payer, i.gas_fee_receiver, owner, b,
                                          i.gas_limit, "0x1", REMOTE_TOKEN, i.amount)
                      IN  consumed.ok =>
                             /\ C35_Dead(consumed.w, b)
                             /\ Len(consumed.w.outgoing) = Len(outgoing) + 1

\* initialize_call_buffer on an initialized buffer fails with
\* AlreadyInitialized and changes nothing.
C35_InitializedOnce ==
    \A b \in BufferIds :
        buffers[b].exists =>
            \A payer \in Users, c \in CallInputs, d \in BufferData :
                LET again == initialize_call_buffer(World, payer, b, buffers[b].capacity,
                                                    c.ty, c.to, c.value, d)
                IN  /\ ~again.ok
                    /\ again.err = "AlreadyInitialized"
                    /\ again.w = World

\* A successful close or consume step takes an existing buffer of its signer
\* away and adds at most the one message of the consume.
C35_Step ==
    (last'.op \in C35_ConsumingOps \cup {"close_call_buffer"} /\ last'.ok /\ now' = now) =>
        /\ \E b \in BufferIds :
              /\ buffers[b].exists
              /\ buffers[b].owner = last'.signer
              /\ ~buffers'[b].exists
        /\ Len(outgoing') =
              Len(outgoing) + (IF last'.op \in C35_ConsumingOps THEN 1 ELSE 0)

\* C35: a CallBuffer is consumed or closed at most once: of a close and a
\* buffered operation (or two buffered operations) on one buffer exactly one
\* succeeds in either order, every later append, close or consume of that
\* buffer fails, one buffer yields one OutgoingMessage, and a second
\* initialize_call_buffer fails with AlreadyInitialized and changes nothing.
C35_ConsumedOrClosedOnce ==
    [](C35_OneWinner /\ C35_InitializedOnce) /\ [][C35_Step]_vars

\* The loser of a race: a close refused after a buffered operation took the
\* buffer and wrote its message.
C35_Witness ==
    /\ last.op = "close_call_buffer"
    /\ ~last.ok
    /\ last.err = "AccountNotInitialized"
    /\ Len(outgoing) = 1
    /\ \A b \in BufferIds : ~buffers[b].exists

\* The fee engines of C36: the stored one under several base fees, and the
\* cited example with target and usage divided by 1000.
C36_Engines ==
    { [bridge.eip1559 EXCEPT !.current_base_fee = base] :
          base \in { bridge.eip1559.current_base_fee, 1, 7, 100, 400 } }
    \cup { [bridge.eip1559 EXCEPT !.current_base_fee = 1000, !.target = 5000,
                                  !.denominator = 2] }

C36_GasUsed(e) ==
    { e.current_window_gas_used, e.target, e.target + 1, e.target + 2,
      e.target + (e.target \div 2), e.target + (3 * e.target) \div 5, 2 * e.target }

C36_Delta(e, gas_used) ==
    (((gas_used - e.target) * e.current_base_fee) \div e.target) \div e.denominator

\* C36: in the used-window step the base fee is unchanged when gas_used =
\* target, and for gas_used > target it becomes base + max(1, (gas_used -
\* target) * base / target / denominator), divided left to right, so it
\* strictly increases even when the delta truncates to 0.
C36_IncreaseAboveTarget ==
    initialized =>
        \A e \in C36_Engines :
            /\ calc_base_fee(e, e.target) = e.current_base_fee
            /\ \A gas_used \in C36_GasUsed(e) :
                  gas_used > e.target =>
                      /\ calc_base_fee(e, gas_used)
                             = e.current_base_fee + Max(1, C36_Delta(e, gas_used))
                      /\ calc_base_fee(e, gas_used) > e.current_base_fee

\* The cited example, target and usage divided by 1000: 1000 becomes 1300.
C36_Example ==
    initialized =>
        calc_base_fee([bridge.eip1559 EXCEPT !.current_base_fee = 1000, !.target = 5000,
                                             !.denominator = 2], 8000) = 1300

\* The window of the stored engine used more gas than the target and the
\* delta truncates to 0: the next base fee is the stored one plus 1.
C36_Witness ==
    /\ initialized
    /\ bridge.eip1559.current_window_gas_used > bridge.eip1559.target
    /\ C36_Delta(bridge.eip1559, bridge.eip1559.current_window_gas_used) = 0
    /\ calc_base_fee(bridge.eip1559, bridge.eip1559.current_window_gas_used)
           = bridge.eip1559.current_base_fee + 1

\* The fee engines of C37: the stored one under several window durations and
\* window usages.
C37_Engines ==
    { [bridge.eip1559 EXCEPT !.window_duration_seconds = wd,
                             !.current_window_gas_used = used] :
          wd \in { bridge.eip1559.window_duration_seconds, 2, 3 },
          used \in { bridge.eip1559.current_window_gas_used, 0, 1,
                     bridge.eip1559.target } }

C37_Timestamps == now .. (MaxTime + MaxWindows)

C37_SameConfiguration(e, f) ==
    /\ f.target = e.target
    /\ f.denominator = e.denominator
    /\ f.window_duration_seconds = e.window_duration_seconds
    /\ f.minimum_base_fee = e.minimum_base_fee

\* A refresh that closes no window changes nothing; one that closes a window
\* empties the usage and starts the window at the timestamp; none moves the
\* start backwards or touches the configuration.
C37_RefreshFrame ==
    initialized =>
        \A e \in C37_Engines, t \in C37_Timestamps :
            t >= e.window_start_time =>
                LET refreshed == refresh_base_fee(e, t) IN
                /\ C37_SameConfiguration(e, refreshed)
                /\ refreshed.window_start_time >= e.window_start_time
                /\ IF expired_windows_count(e, t) = 0
                   THEN /\ refreshed.current_base_fee = e.current_base_fee
                        /\ refreshed.current_window_gas_used = e.current_window_gas_used
                        /\ refreshed.window_start_time = e.window_start_time
                   ELSE /\ refreshed.current_window_gas_used = 0
                        /\ refreshed.window_start_time = t

\* The refresh of a charge: the stored window start never decreases, the
\* configuration is left alone, and the usage after the charge is the
\* message's alone exactly when a window was closed.
C37_Step ==
    (initialized /\ last'.op = "bridge_call" /\ now' = now) =>
        /\ C37_SameConfiguration(bridge.eip1559, bridge'.eip1559)
        /\ bridge'.eip1559.window_start_time >= bridge.eip1559.window_start_time
        /\ last'.ok =>
              LET gas == outgoing'[Len(outgoing')].gas_limit IN
              IF expired_windows_count(bridge.eip1559, now) = 0
              THEN /\ bridge'.eip1559.window_start_time = bridge.eip1559.window_start_time
                   /\ bridge'.eip1559.current_base_fee = bridge.eip1559.current_base_fee
                   /\ bridge'.eip1559.current_window_gas_used
                          = bridge.eip1559.current_window_gas_used + gas
              ELSE /\ bridge'.eip1559.window_start_time = now
                   /\ bridge'.eip1559.current_window_gas_used = gas

\* C37: refresh_base_fee(now) with no expired window leaves current_base_fee,
\* current_window_gas_used and window_start_time unchanged; with at least one
\* it sets current_window_gas_used to 0 and window_start_time to now; over
\* non-decreasing timestamps window_start_time never decreases; the
\* configuration fields are never changed by a refresh.
C37_RefreshFrameKept == []C37_RefreshFrame /\ [][C37_Step]_vars

\* A second charge made one window after the first: the window restarted at
\* the clock and holds the second message's gas alone.
C37_Witness ==
    /\ last.op = "bridge_call" /\ last.ok
    /\ Len(outgoing) = 2
    /\ now = 1
    /\ bridge.eip1559.window_start_time = 1
    /\ bridge.eip1559.current_window_gas_used = outgoing[2].gas_limit

\* For a base below SCALE no product overflows, the power of exponent 0 is
\* SCALE, no power exceeds SCALE and the next exponent's power is not larger.
C38_WithinScale ==
    pow.base < SCALE =>
        /\ ~pow.panicked
        /\ fixed_pow(pow.base, 0) = SCALE
        /\ pow.result = fixed_pow(pow.base, pow.exp)
        /\ pow.result <= SCALE
        /\ ~fixed_pow_panics(pow.base, pow.exp + 1)
        /\ fixed_pow(pow.base, pow.exp + 1) <= pow.result

\* An evaluation any of whose products leaves the word panicked and has no
\* value; one that did not panic multiplied inside the word.
C38_OverflowAborts ==
    IF pow.panicked
    THEN pow.base >= SCALE /\ pow.result = 0
    ELSE pow.result = fixed_pow(pow.base, pow.exp)

C38_Step ==
    (pow'.exp = pow.exp + 1 /\ pow.base < SCALE) => pow'.result <= pow.result

\* C38: for every base < SCALE and every exponent e >= 0, fixed_pow(base, 0) =
\* SCALE and fixed_pow(base, e + 1) <= fixed_pow(base, e) <= SCALE; a
\* multiplication that overflows the word aborts instead of wrapping.
C38_MonotoneDecay == [](C38_WithinScale /\ C38_OverflowAborts) /\ [][C38_Step]_vars

\* A power of a base just below SCALE that decayed strictly under the
\* truncating division.
C38_Witness ==
    /\ pow.base = SCALE - 1
    /\ pow.exp = MaxExponent
    /\ pow.result < pow.base

\* A base above SCALE whose square left the word.
C38_WitnessPanicked == pow.panicked /\ pow.base = 4 * SCALE

\* Byte strings of the metadata hash.  keccak::hash is taken to be injective:
\* a hash is the byte string it was computed from.
PartialTokenMetadata_hash(metadata) ==
    metadata.name \o metadata.symbol \o metadata.remote_token
        \o << metadata.scaler_exponent >>

\* The address of the wrapped mint: the seeds it is derived from.
WrapToken_mint(decimals, metadata) ==
    << "wrapped_token", decimals, PartialTokenMetadata_hash(metadata) >>

RemoteTokenBytes(b) == [i \in 1..20 |-> b]

\* The request that created WRAPPED_MINT.
WrappedTokenMetadata ==
    [ name |-> << 97, 98 >>, symbol |-> << 99 >>,
      remote_token |-> RemoteTokenBytes(1), scaler_exponent |-> 9 ]

C39_Metadata ==
    [ name : { << 97 >>, << 97, 98 >> },
      symbol : { << 99 >>, << 98, 99 >> },
      remote_token : { RemoteTokenBytes(1), RemoteTokenBytes(2) },
      scaler_exponent : { 0, 9 } ]

C39_Decimals == {6, 9}

\* C39: the wrapped-mint seed is injective in the metadata: requests with equal
\* decimals whose metadata differ in name, symbol, remote_token or
\* scaler_exponent derive different hashes and mint addresses, so that only a
\* wrap_token with identical fields meets the existing mint.
C39_SeedInjective ==
    tokens.wrapped_exists =>
        \A decimals \in C39_Decimals, metadata \in C39_Metadata :
            metadata # WrappedTokenMetadata =>
                /\ PartialTokenMetadata_hash(metadata)
                       # PartialTokenMetadata_hash(WrappedTokenMetadata)
                /\ WrapToken_mint(decimals, metadata)
                       # WrapToken_mint(decimals, WrappedTokenMetadata)

\* The part of C39 that holds: requests with the same name and symbol that
\* differ in remote_token or scaler_exponent, and requests with different
\* decimals, derive different mints.
C39_FixedWidthFieldsInjective ==
    tokens.wrapped_exists =>
        \A d1 \in C39_Decimals, d2 \in C39_Decimals, m1 \in C39_Metadata, m2 \in C39_Metadata :
            (m1.name = m2.name /\ m1.symbol = m2.symbol /\ << d1, m1 >> # << d2, m2 >>) =>
                WrapToken_mint(d1, m1) # WrapToken_mint(d2, m2)

\* A second request whose name and symbol split the same bytes elsewhere
\* meets the mint the first one created.
C39_Collision ==
    /\ tokens.wrapped_exists
    /\ last.op = "wrap_token" /\ last.ok
    /\ \E metadata \in C39_Metadata :
          /\ metadata.name # WrappedTokenMetadata.name
          /\ WrapToken_mint(9, metadata) = WrapToken_mint(9, WrappedTokenMetadata)

C40_Transfers ==
    { FinalizeBridgeSpl(remote_token, local_token, to, amount) :
          remote_token \in {REMOTE_TOKEN, OTHER_REMOTE_TOKEN},
          local_token \in {SPL_MINT, FOREIGN_MINT},
          to \in Users, amount \in {1, 2} }

C40_Accounts ==
    { RemainingAccounts(mint, token_vault, to, TRUE) :
          mint \in {SPL_MINT, FOREIGN_MINT},
          token_vault \in {TOKEN_VAULT, OTHER_TOKEN_VAULT, "alice"},
          to \in Users }

\* The balances after `amount` of `self.local_token` left the vault of the
\* pair (local_token, remote_token) for the token account `self.to`.
C40_Released(bal, self) ==
    LET token_vault == token_vault_pda(self.local_token, self.remote_token) IN
    [bal EXCEPT ![self.local_token][token_vault] = @ - self.amount,
                ![self.local_token][self.to] = @ + self.amount]

\* A finalization succeeds only with the mint, the vault of the pair and the
\* recipient the message names, and then moves exactly the amount from that
\* vault to the recipient; otherwise it fails with the error of the first
\* mismatch and moves nothing.
C40_Finalize ==
    \A self \in C40_Transfers, accs \in C40_Accounts :
        LET finalized == FinalizeBridgeSpl_finalize(World, self, accs)
            token_vault == token_vault_pda(self.local_token, self.remote_token)
        IN  IF finalized.ok
            THEN /\ accs.mint = self.local_token
                 /\ accs.to = self.to
                 /\ accs.token_vault = token_vault
                 /\ tokens.bal[self.local_token][token_vault] >= self.amount
                 /\ finalized.w = [World EXCEPT !.tokens.bal = C40_Released(tokens.bal, self)]
            ELSE /\ finalized.w = World
                 /\ accs.mint # self.local_token =>
                        finalized.err = "MintDoesNotMatchLocalToken"
                 /\ (accs.mint = self.local_token /\ accs.to # self.to) =>
                        finalized.err = "TokenAccountDoesNotMatchTo"
                 /\ (accs.mint = self.local_token /\ accs.to = self.to
                        /\ accs.token_vault # token_vault) =>
                        finalized.err = "IncorrectTokenVault"

C40_NoNegativeBalance ==
    \A mint \in Mints, holder \in TokenHolders : tokens.bal[mint][holder] >= 0

\* A relay that fails leaves the tokens and the message as they were; one that
\* succeeds marks one message executed and, for a transfer, releases its
\* amount from the vault of its pair to its recipient.
C40_Step ==
    (last'.op = "relay_message" /\ now' = now) =>
        IF ~last'.ok THEN UNCHANGED << tokens, incoming >>
        ELSE \E h \in MessageHashes :
                /\ ~incoming[h].executed
                /\ incoming'[h].executed
                /\ tokens'.bal =
                       IF incoming[h].message.kind = "Transfer"
                       THEN C40_Released(tokens.bal, incoming[h].message.transfer)
                       ELSE tokens.bal

\* C40: an inbound SPL finalization naming (local_token, remote_token, to,
\* amount) debits only the vault of that (mint, remote_token) pair and credits
\* exactly `to` with `amount`; with another mint, vault or recipient it fails
\* without moving tokens and the relay is not marked executed; no vault
\* balance goes negative.
C40_ReleasedFromItsVault ==
    [](C40_Finalize /\ C40_NoNegativeBalance) /\ [][C40_Step]_vars

\* The transfer to bob was relayed: the vault of (SPL mint, remote token) is
\* empty again and bob holds the token alice locked.
C40_Witness ==
    /\ last.op = "relay_message" /\ last.ok
    /\ tokens.bal[SPL_MINT]["bob"] = 2
    /\ tokens.bal[SPL_MINT][TOKEN_VAULT] = 0
    /\ tokens.bal[SPL_MINT][OTHER_TOKEN_VAULT] = 0
    /\ \E h \in MessageHashes :
          incoming[h].executed /\ incoming[h].message.kind = "Transfer"

=============================================================================
